---------------------------- MODULE Spec2Model ----------------------------
(***************************************************************************)
(* Tiered WebAssembly callees (Source/JavaScriptCore/wasm/WasmCallee.h):   *)
(* the replacement and OSR-entry slots of LLIntCallee and BBQCallee, the   *)
(* reference counts of the JIT callees stored in them, and the threads     *)
(* that write (compilation plans) and read (mutators) those slots.         *)
(*                                                                         *)
(* A JIT callee is identified with the plan that creates it.  The setters  *)
(* are `slot = WTFMove(ref)` on a plain RefPtr: WTF's RefPtr assignment    *)
(* builds a temporary from the argument, swaps the raw pointers (a load    *)
(* of the old pointer, then a store of the new one) and the temporary's    *)
(* destructor derefs the old pointer.  None of this is atomic and the      *)
(* setters take no lock, so the three steps of different threads           *)
(* interleave; a raw pointer load or store is one step.                    *)
(*                                                                         *)
(* Further parts, each with its own variables and specification: the       *)
(* OSR-compilation flag of BBQCallee, the exception handler table of       *)
(* OptimizingJITCallee, the constructor of JSWebAssemblyCalleeGroup        *)
(* (wasm/js/JSWebAssemblyCalleeGroup.cpp) and WTF::FixedVector             *)
(* (WTF/wtf/FixedVector.h).                                                *)
(***************************************************************************)
EXTENDS Integers, FiniteSets, Sequences, TLC

\* ---------------------------------------------------------------- bounds
MaxPlans == 3
NumFunctions == 2
NumMutators == 1

Plans == 1..MaxPlans
Funcs == 0..(NumFunctions - 1)
Mutators == 1..NumMutators

\* Wasm::MemoryMode, the index of m_replacements[] and m_osrEntryCallees[].
MemoryMode == {"BoundsChecking", "Signaling"}

\* Wasm::CompilationMode of the callees a plan can create.
JITTiers == {"BBQMode", "OMGMode", "OMGForOSREntryMode"}

\* A null RefPtr / raw pointer.
NULL == 0

\* The four kinds of slot of WasmCallee.h.  An LLIntCallee has one slot of
\* the first two kinds per memory mode; a BBQCallee has one of each of the
\* last two, whatever the memory mode.
LLIntSlots ==
    [kind : {"m_replacements", "m_osrEntryCallees"}, f : Funcs, m : MemoryMode]
BBQSlots ==
    [kind : {"m_replacement", "m_osrEntryCallee"}, b : Plans]
AllSlots == LLIntSlots \cup BBQSlots
NoSlot == [kind |-> "none"]
NoFrame == [callee |-> NULL, from |-> NoSlot, raced |-> FALSE]

VARIABLES
    pc,                 \* plan -> where the plan is
    tier,               \* callee -> m_compilationMode
    index,              \* callee -> function index (m_indexOrName)
    mode,               \* callee -> memory mode it was compiled for
    linked,             \* callee -> m_exceptionHandlers has been linked
    refCount,           \* callee -> ThreadSafeRefCounted count
    overReleased,       \* callees deref'ed or ref'ed after their destruction
    target,             \* plan -> slot its setter call writes
    old,                \* plan -> pointer its swap loaded from the slot
    m_replacements,     \* LLIntCallee f -> mode -> RefPtr<JITCallee>
    m_osrEntryCallees,  \* LLIntCallee f -> mode -> RefPtr<OMGForOSREntryCallee>
    m_replacement,      \* BBQCallee b -> RefPtr<OMGCallee>
    m_osrEntryCallee,   \* BBQCallee b -> RefPtr<OMGForOSREntryCallee>
    frame               \* mutator -> the callee pointer its last read returned

vars == <<pc, tier, index, mode, linked, refCount, overReleased, target, old,
          m_replacements, m_osrEntryCallees, m_replacement, m_osrEntryCallee,
          frame>>

slots == <<m_replacements, m_osrEntryCallees, m_replacement, m_osrEntryCallee>>

\* The OSR-compilation flag of the BBQ callees and the threads that test it.
VARIABLES
    m_didStartCompilingOSREntryCallee,  \* BBQCallee -> the flag
    osrPc,          \* thread -> "running" | "tested"
    osrCallee,      \* thread -> the BBQCallee whose loop it runs
    osrSaw,         \* thread -> what the getter returned to it
    osrCrossings,   \* thread -> times it crossed the threshold
    osrJobs         \* BBQCallee -> OSR compilations requested for it

osrVars == <<m_didStartCompilingOSREntryCallee, osrPc, osrCallee, osrSaw,
             osrCrossings, osrJobs>>

\* The construction of one OptimizingJITCallee and its handler table.
VARIABLES
    ehMode,                     \* compilation mode of the callee constructed
    unlinkedExceptionHandlers,  \* constructor argument
    exceptionHandlerLocations,  \* constructor argument
    ehPc,                       \* "constructing" | "created" | "aborted"
    m_exceptionHandlers,        \* Callee::m_exceptionHandlers
    ehQuery,                    \* arguments of the last handlerForIndex call
    ehResult                    \* what that call returned

ehVars == <<ehMode, unlinkedExceptionHandlers, exceptionHandlerLocations, ehPc,
            m_exceptionHandlers, ehQuery, ehResult>>

\* The construction of one JSWebAssemblyCalleeGroup.
VARIABLES
    functionImportCount,            \* m_calleeGroup->functionImportCount()
    importFunctionSignatureIndices, \* moduleInformation's vector
    importIndex,                    \* the loop variable of the constructor
    m_wasmToJSExitStubs,            \* FixedVector of the trampolines
    m_errorMessage,                 \* String, empty when no error
    cgPc                            \* "constructing" | "returned"

cgVars == <<functionImportCount, importFunctionSignatureIndices, importIndex,
            m_wasmToJSExitStubs, m_errorMessage, cgPc>>

\* FixedVector objects and the storages they own.
VARIABLES
    m_storage,      \* FixedVector -> its std::unique_ptr<Storage> (NULL: none)
    fvHeap,         \* storage -> the elements it holds
    fvLive,         \* the storages allocated and not freed
    fvResult        \* the last element operation and what it returned

fvVars == <<m_storage, fvHeap, fvLive, fvResult>>

\* Callee objects of every class, their code and the code space.
VARIABLES
    calleeClass,            \* callee -> its class ("none": not constructed)
    m_compilationMode,      \* callee -> Callee::m_compilationMode
    m_entrypoint,           \* callee -> the code pointer entrypoint() returns
    codeRange,              \* callee -> <<start, end>> of range()
    m_wasmToWasmCallsites,  \* callee -> JITCallee::m_wasmToWasmCallsites
    observable              \* callees installed in a slot or a callee group

coVars == <<calleeClass, m_compilationMode, m_entrypoint, codeRange,
            m_wasmToWasmCallsites, observable>>

\* The GPU buffer object (BufferVk): its backing storage, the shadow copy,
\* the staging pointer of a small invalidating map, the two flags, the
\* front-end state it reads (mState), and the outcome of the last operation.
VARIABLES
    mBuffer,
    mShadowBuffer,
    mMapInvalidateRangeMappedPtr,
    mHasValidData,
    mHasBeenReferencedByGPU,
    mState,
    bvResult

bvVars == <<mBuffer, mShadowBuffer, mMapInvalidateRangeMappedPtr,
            mHasValidData, mHasBeenReferencedByGPU, mState, bvResult>>

\* WebKit: VideoTrackPrivateRemote (VideoTrackPrivateRemote.cpp).
VARIABLES
    m_gpuProcessConnection, \* the WeakPtr: TRUE while the connection lives
    m_id,                   \* TrackPrivateRemote id string
    m_label,
    m_language,
    m_selected,             \* VideoTrackPrivate::m_selected
    vtFields,               \* the other members updateConfiguration stores
    vtClient,               \* TRUE when client() is non-null
    vtConstructed,          \* the constructor has run
    vtSent,                 \* messages sent on the connection, in order
    vtResult                \* the last call and the client callbacks it made

vtVars == <<m_gpuProcessConnection, m_id, m_label, m_language, m_selected, vtFields, vtClient, vtConstructed, vtSent, vtResult>>

\* WebCore: the AT-SPI Selection interface of an accessibility object
\* (AccessibilityObjectSelectionAtspi.cpp).
VARIABLES
    m_coreObject,   \* TRUE while the wrapper has its core object
    asSelected,     \* child -> isSelected()
    asResult        \* the last D-Bus method call and its reply

asVars == <<m_coreObject, asSelected, asResult>>

\* What the actions of each part of the model leave alone: the variables of
\* the other parts.
outsideCallee == <<osrVars, ehVars, cgVars, fvVars, coVars, bvVars, vtVars, asVars>>
outsideOSR == <<vars, ehVars, cgVars, fvVars, coVars, bvVars, vtVars, asVars>>
outsideEH == <<vars, osrVars, cgVars, fvVars, coVars, bvVars, vtVars, asVars>>
outsideCG == <<vars, osrVars, ehVars, fvVars, coVars, bvVars, vtVars, asVars>>
outsideFV == <<vars, osrVars, ehVars, cgVars, coVars, bvVars, vtVars, asVars>>
outsideCalleeObjects == <<vars, osrVars, ehVars, cgVars, fvVars, bvVars, vtVars, asVars>>
outsideBufferVk == <<vars, osrVars, ehVars, cgVars, fvVars, coVars, vtVars, asVars>>
outsideVideoTrack == <<vars, osrVars, ehVars, cgVars, fvVars, coVars, bvVars, asVars>>
outsideSelection == <<vars, osrVars, ehVars, cgVars, fvVars, coVars, bvVars, vtVars>>
allVars == <<vars, osrVars, ehVars, cgVars, fvVars, coVars, bvVars, vtVars, asVars>>

\* ------------------------------------------------------------- helpers

\* The callee exists: its constructor has returned (create() gave a Ref).
Constructed(c) == pc[c] \notin {"idle", "constructing", "failed"}

\* ~Callee() has run: the count reached zero.
Destroyed(c) == Constructed(c) /\ refCount[c] = 0

\* A RELEASE_ASSERT fired: the process is gone, no thread takes another step.
Aborted == \E p \in Plans : pc[p] = "aborted"

\* replacement(mode), osrEntryCallee(mode), replacement(), osrEntryCallee():
\* the raw pointer in the slot.
SlotValue(s) ==
    CASE s.kind = "m_replacements" -> m_replacements[s.f][s.m]
      [] s.kind = "m_osrEntryCallees" -> m_osrEntryCallees[s.f][s.m]
      [] s.kind = "m_replacement" -> m_replacement[s.b]
      [] s.kind = "m_osrEntryCallee" -> m_osrEntryCallee[s.b]

\* Slots of a hierarchy in which every JIT callee, the Optimizing and OSR-entry
\* ones included, has the replacement and OSR-entry members of BBQCallee.
SlotsOfEveryJITCallee ==
    LLIntSlots \cup {s \in BBQSlots : Constructed(s.b)}

\* The slots that exist: those of the LLInt callees of the group and those of
\* the BBQ callees that have been constructed.
Slots ==
    LLIntSlots \cup {s \in BBQSlots : Constructed(s.b) /\ tier[s.b] = "BBQMode"}

\* StoreSlot with the memory mode ignored by the LLInt callee (as BBQCallee
\* ignores it): the store goes to the slot of every mode.
StoreSlotEveryMode(s, v) ==
    /\ m_replacements' =
         IF s.kind = "m_replacements"
         THEN [m_replacements EXCEPT ![s.f] = [m \in MemoryMode |-> v]]
         ELSE m_replacements
    /\ m_osrEntryCallees' =
         IF s.kind = "m_osrEntryCallees"
         THEN [m_osrEntryCallees EXCEPT ![s.f] = [m \in MemoryMode |-> v]]
         ELSE m_osrEntryCallees
    /\ m_replacement' =
         IF s.kind = "m_replacement"
         THEN [m_replacement EXCEPT ![s.b] = v] ELSE m_replacement
    /\ m_osrEntryCallee' =
         IF s.kind = "m_osrEntryCallee"
         THEN [m_osrEntryCallee EXCEPT ![s.b] = v] ELSE m_osrEntryCallee

\* The raw pointer store of RefPtr::swap into slot s.
StoreSlot(s, v) ==
    /\ m_replacements' =
         IF s.kind = "m_replacements"
         THEN [m_replacements EXCEPT ![s.f][s.m] = v] ELSE m_replacements
    /\ m_osrEntryCallees' =
         IF s.kind = "m_osrEntryCallees"
         THEN [m_osrEntryCallees EXCEPT ![s.f][s.m] = v] ELSE m_osrEntryCallees
    /\ m_replacement' =
         IF s.kind = "m_replacement"
         THEN [m_replacement EXCEPT ![s.b] = v] ELSE m_replacement
    /\ m_osrEntryCallee' =
         IF s.kind = "m_osrEntryCallee"
         THEN [m_osrEntryCallee EXCEPT ![s.b] = v] ELSE m_osrEntryCallee

\* ThreadSafeRefCounted::deref() of pointer c (no-op on null): the count goes
\* down and the callee is destroyed at zero; a deref of a callee that is
\* already destroyed is a use after free, recorded in overReleased.
Deref(c) ==
    IF c = NULL
    THEN UNCHANGED <<refCount, overReleased>>
    ELSE IF refCount[c] = 0
         THEN /\ overReleased' = overReleased \cup {c}
              /\ UNCHANGED refCount
         ELSE /\ refCount' = [refCount EXCEPT ![c] = @ - 1]
              /\ UNCHANGED overReleased

\* ------------------------------------------------------------- initial

Init ==
    /\ pc = [p \in Plans |-> "idle"]
    /\ tier = [p \in Plans |-> "none"]
    /\ index = [p \in Plans |-> 0]
    /\ mode = [p \in Plans |-> "BoundsChecking"]
    /\ linked = [p \in Plans |-> FALSE]
    /\ refCount = [p \in Plans |-> 0]
    /\ overReleased = {}
    /\ target = [p \in Plans |-> NoSlot]
    /\ old = [p \in Plans |-> NULL]
    /\ m_replacements = [f \in Funcs |-> [m \in MemoryMode |-> NULL]]
    /\ m_osrEntryCallees = [f \in Funcs |-> [m \in MemoryMode |-> NULL]]
    /\ m_replacement = [b \in Plans |-> NULL]
    /\ m_osrEntryCallee = [b \in Plans |-> NULL]
    /\ frame = [t \in Mutators |-> NoFrame]

\* ----------------------------------------------------- compilation plans

\* A plan compiles function f for memory mode m in tier t and calls the
\* tier's create(): the JITCallee base constructor and the member
\* initialisers have run, the body of the OptimizingJITCallee constructor has
\* not.  Plans, functions and memory modes are interchangeable in this code,
\* so plans start in the order of their numbers, the first plan compiles
\* function 0 for BoundsChecking, and a function is first compiled only
\* after every function of a smaller index (one representative of each
\* class of runs that differ by a renaming).
Compile(p, t, f, m) ==
    /\ ~Aborted
    /\ pc[p] = "idle"
    /\ \A q \in Plans : q < p => pc[q] # "idle"
    /\ p = 1 => m = "BoundsChecking"
    /\ \A g \in Funcs : g < f => \E q \in Plans : q < p /\ index[q] = g
    /\ pc' = [pc EXCEPT ![p] = "constructing"]
    /\ tier' = [tier EXCEPT ![p] = t]
    /\ index' = [index EXCEPT ![p] = f]
    /\ mode' = [mode EXCEPT ![p] = m]
    /\ UNCHANGED <<linked, refCount, overReleased, target, old, slots, frame>>
    /\ UNCHANGED outsideCallee

\* OptimizingJITCallee with the call of linkExceptionHandlers left out of the
\* constructor (to be done by a later pass).
OptimizingJITCalleeUnlinked(p) ==
    /\ ~Aborted
    /\ pc[p] = "constructing"
    /\ refCount' = [refCount EXCEPT ![p] = 1]
    /\ pc' = [pc EXCEPT ![p] = "created"]
    /\ UNCHANGED <<tier, index, mode, linked, overReleased, target, old, slots,
                   frame>>
    /\ UNCHANGED outsideCallee

\* The body of the OptimizingJITCallee constructor links the exception
\* handlers; then create() adopts the new object: the plan holds the first
\* reference.
OptimizingJITCallee(p) ==
    /\ ~Aborted
    /\ pc[p] = "constructing"
    /\ linked' = [linked EXCEPT ![p] = TRUE]
    /\ refCount' = [refCount EXCEPT ![p] = 1]
    /\ pc' = [pc EXCEPT ![p] = "created"]
    /\ UNCHANGED <<tier, index, mode, overReleased, target, old, slots, frame>>
    /\ UNCHANGED outsideCallee

\* TargetsOf with a BBQCallee whose OSR-entry slot is per memory mode: the
\* setter takes a callee only for the mode the BBQ callee was compiled for.
TargetsOfOwnMode(p) ==
    {s \in Slots :
        \/ /\ s.kind = "m_replacements"
           /\ tier[p] \in {"BBQMode", "OMGMode"}
           /\ s.f = index[p] /\ s.m = mode[p]
        \/ /\ s.kind = "m_osrEntryCallees"
           /\ tier[p] = "OMGForOSREntryMode"
           /\ s.f = index[p] /\ s.m = mode[p]
        \/ /\ s.kind = "m_replacement"
           /\ tier[p] = "OMGMode"
           /\ ~Destroyed(s.b)
           /\ index[s.b] = index[p] /\ mode[s.b] = mode[p]
        \/ /\ s.kind = "m_osrEntryCallee"
           /\ tier[p] = "OMGForOSREntryMode"
           /\ ~Destroyed(s.b)
           /\ index[s.b] = index[p] /\ mode[s.b] = mode[p]}

\* The slots a plan may publish its callee into: the setter it can call with
\* a Ref of the callee's type, on the LLInt callee of its function or on a
\* live BBQ callee of its function.
TargetsOf(p) ==
    {s \in Slots :
        \/ /\ s.kind = "m_replacements"
           /\ tier[p] \in {"BBQMode", "OMGMode"}
           /\ s.f = index[p] /\ s.m = mode[p]
        \/ /\ s.kind = "m_osrEntryCallees"
           /\ tier[p] = "OMGForOSREntryMode"
           /\ s.f = index[p] /\ s.m = mode[p]
        \/ /\ s.kind = "m_replacement"
           /\ tier[p] = "OMGMode"
           /\ ~Destroyed(s.b)
           /\ index[s.b] = index[p] /\ mode[s.b] = mode[p]
        \/ /\ s.kind = "m_osrEntryCallee"
           /\ tier[p] = "OMGForOSREntryMode"
           /\ ~Destroyed(s.b)
           /\ index[s.b] = index[p]}

\* AssignLoad of an assignment that releases the old pointer before it stores
\* the new one (reset, then assign) instead of swapping with a temporary.
AssignLoadReleaseFirst(p, s) ==
    /\ ~Aborted
    /\ pc[p] = "created"
    /\ s \in TargetsOf(p)
    /\ LET o == SlotValue(s) IN
         IF o = NULL
         THEN /\ refCount' = [refCount EXCEPT ![p] = @ + 1]
              /\ UNCHANGED overReleased
         ELSE IF refCount[o] = 0
              THEN /\ refCount' = [refCount EXCEPT ![p] = @ + 1]
                   /\ overReleased' = overReleased \cup {o}
              ELSE /\ refCount' = [refCount EXCEPT ![p] = @ + 1, ![o] = @ - 1]
                   /\ UNCHANGED overReleased
    /\ target' = [target EXCEPT ![p] = s]
    /\ old' = [old EXCEPT ![p] = NULL]
    /\ pc' = [pc EXCEPT ![p] = "loaded"]
    /\ UNCHANGED <<tier, index, mode, linked, slots, frame>>
    /\ UNCHANGED outsideCallee

\* AssignLoad of an assignment that first resets the slot to null and then
\* assigns (clear, then set) instead of swapping.
AssignLoadReset(p, s) ==
    /\ ~Aborted
    /\ pc[p] = "created"
    /\ s \in TargetsOf(p)
    /\ refCount' = [refCount EXCEPT ![p] = @ + 1]
    /\ target' = [target EXCEPT ![p] = s]
    /\ old' = [old EXCEPT ![p] = SlotValue(s)]
    /\ StoreSlot(s, NULL)
    /\ pc' = [pc EXCEPT ![p] = "loaded"]
    /\ UNCHANGED <<tier, index, mode, linked, overReleased, frame>>
    /\ UNCHANGED outsideCallee

\* AssignLoad of a setter that takes whatever the compilation returned, the
\* empty result of a failed one included (a RefPtr parameter, not a Ref).
AssignLoadAnyResult(p, s) ==
    /\ ~Aborted
    /\ pc[p] \in {"created", "failed"}
    /\ s \in TargetsOf(p)
    /\ refCount' = [refCount EXCEPT ![p] = @ + 1]
    /\ target' = [target EXCEPT ![p] = s]
    /\ old' = [old EXCEPT ![p] = SlotValue(s)]
    /\ pc' = [pc EXCEPT ![p] = "loaded"]
    /\ UNCHANGED <<tier, index, mode, linked, overReleased, slots, frame>>
    /\ UNCHANGED outsideCallee

\* setReplacement / setOSREntryCallee, first step.  The plan passes a copy of
\* its reference (count + 1); RefPtr::operator=(Ref&&) moves it into a
\* temporary and swap() loads the slot's old raw pointer.
AssignLoad(p, s) ==
    /\ ~Aborted
    /\ pc[p] = "created"
    /\ s \in TargetsOf(p)
    /\ refCount' = [refCount EXCEPT ![p] = @ + 1]
    /\ target' = [target EXCEPT ![p] = s]
    /\ old' = [old EXCEPT ![p] = SlotValue(s)]
    /\ pc' = [pc EXCEPT ![p] = "loaded"]
    /\ UNCHANGED <<tier, index, mode, linked, overReleased, slots, frame>>
    /\ UNCHANGED outsideCallee

\* Second step: swap() stores the new raw pointer into the slot,
\* unconditionally.
AssignStore(p) ==
    /\ ~Aborted
    /\ pc[p] = "loaded"
    /\ StoreSlot(target[p], p)
    /\ pc' = [pc EXCEPT ![p] = "stored"]
    /\ UNCHANGED <<tier, index, mode, linked, refCount, overReleased, target,
                   old, frame>>
    /\ UNCHANGED outsideCallee

\* Third step: the temporary goes out of scope and derefs the pointer the
\* swap loaded.
AssignDeref(p) ==
    /\ ~Aborted
    /\ pc[p] = "stored"
    /\ Deref(old[p])
    /\ old' = [old EXCEPT ![p] = NULL]
    /\ pc' = [pc EXCEPT ![p] = "published"]
    /\ UNCHANGED <<tier, index, mode, linked, target, slots, frame>>
    /\ UNCHANGED outsideCallee

\* The plan ends and releases its own reference to the callee, published or
\* not.
Release(p) ==
    /\ ~Aborted
    /\ pc[p] \in {"created", "published"}
    /\ Deref(p)
    /\ pc' = [pc EXCEPT ![p] = "done"]
    /\ UNCHANGED <<tier, index, mode, linked, target, old, slots, frame>>
    /\ UNCHANGED outsideCallee

\* A compilation that fails (out of executable memory) creates no callee:
\* no create() runs, so the plan has no Ref to hand to a setter.  The plan
\* reports the failure to the path that requested it and ends.
CompileFail(p, t, f, m) ==
    /\ ~Aborted
    /\ pc[p] = "idle"
    /\ \A q \in Plans : q < p => pc[q] # "idle"
    /\ p = 1 => m = "BoundsChecking"
    /\ \A g \in Funcs : g < f => \E q \in Plans : q < p /\ index[q] = g
    /\ pc' = [pc EXCEPT ![p] = "failed"]
    /\ tier' = [tier EXCEPT ![p] = t]
    /\ index' = [index EXCEPT ![p] = f]
    /\ mode' = [mode EXCEPT ![p] = m]
    /\ UNCHANGED <<linked, refCount, overReleased, target, old, slots, frame>>
    /\ UNCHANGED outsideCallee

\* Callee::setOSREntryCallee(Ref<OMGForOSREntryCallee>&&, MemoryMode), the
\* virtual function as the classes that do not override it inherit it
\* (OMGCallee, OMGForOSREntryCallee, EmbedderEntrypointCallee): plan p calls
\* it on such a callee c and RELEASE_ASSERT_NOT_REACHED ends the process.
CalleeSetOSREntryCallee(p, c) ==
    /\ ~Aborted
    /\ pc[p] = "created"
    /\ tier[p] = "OMGForOSREntryMode"
    /\ Constructed(c) /\ ~Destroyed(c)
    /\ tier[c] \in {"OMGMode", "OMGForOSREntryMode"}
    /\ pc' = [pc EXCEPT ![p] = "aborted"]
    /\ UNCHANGED <<tier, index, mode, linked, refCount, overReleased, target,
                   old, slots, frame>>
    /\ UNCHANGED outsideCallee

\* ------------------------------------------------------------- mutators

\* A setter call on slot s is between its first and its last step.
InProgress(s) == \E q \in Plans : pc[q] \in {"loaded", "stored"} /\ target[q] = s

\* ReadSlot of a getter that indexes the per-mode array with a cached mode:
\* it returns the pointer of the function's slot for BoundsChecking.
ReadSlotCachedMode(t, s) ==
    /\ ~Aborted
    /\ frame[t] = NoFrame
    /\ s \in Slots
    /\ s \in BBQSlots => ~Destroyed(s.b)
    /\ LET r == IF s \in LLIntSlots THEN [s EXCEPT !.m = "BoundsChecking"] ELSE s
       IN /\ SlotValue(r) # NULL
          /\ frame' = [frame EXCEPT ![t] =
                          [callee |-> SlotValue(r), from |-> s,
                           raced |-> InProgress(s)]]
    /\ UNCHANGED <<pc, tier, index, mode, linked, refCount, overReleased,
                   target, old, slots>>
    /\ UNCHANGED outsideCallee

\* A mutator at a call site or loop back-edge calls replacement(mode) /
\* osrEntryCallee(mode) / replacement() / osrEntryCallee(): it gets the raw
\* pointer of the slot, takes no reference, and runs the callee when the
\* pointer is not null (on null it stays in the current tier).
ReadSlot(t, s) ==
    /\ ~Aborted
    /\ frame[t] = NoFrame
    /\ s \in Slots
    /\ s \in BBQSlots => ~Destroyed(s.b)
    /\ SlotValue(s) # NULL
    /\ frame' = [frame EXCEPT ![t] =
                    [callee |-> SlotValue(s), from |-> s, raced |-> InProgress(s)]]
    /\ UNCHANGED <<pc, tier, index, mode, linked, refCount, overReleased,
                   target, old, slots>>
    /\ UNCHANGED outsideCallee

\* The call or loop the mutator entered returns.
Return(t) ==
    /\ ~Aborted
    /\ frame[t] # NoFrame
    /\ frame' = [frame EXCEPT ![t] = NoFrame]
    /\ UNCHANGED <<pc, tier, index, mode, linked, refCount, overReleased,
                   target, old, slots>>
    /\ UNCHANGED outsideCallee

\* ---------------------------------------------------------- specification

Next ==
    \/ \E p \in Plans, t \in JITTiers, f \in Funcs, m \in MemoryMode :
          Compile(p, t, f, m)
    \/ \E p \in Plans : OptimizingJITCallee(p)
    \/ \E p \in Plans, s \in AllSlots : AssignLoad(p, s)
    \/ \E p \in Plans : AssignStore(p)
    \/ \E p \in Plans : AssignDeref(p)
    \/ \E p \in Plans : Release(p)
    \/ \E t \in Mutators, s \in AllSlots : ReadSlot(t, s)
    \/ \E t \in Mutators : Return(t)

\* Next with the compilations that fail and the setter calls that abort.
NextErr ==
    \/ Next
    \/ \E p \in Plans, t \in JITTiers, f \in Funcs, m \in MemoryMode :
          CompileFail(p, t, f, m)
    \/ \E p \in Plans, c \in Plans : CalleeSetOSREntryCallee(p, c)

TypeOK ==
    /\ pc \in [Plans -> {"idle", "constructing", "created", "loaded", "stored",
                         "published", "done", "failed", "aborted"}]
    /\ tier \in [Plans -> JITTiers \cup {"none"}]
    /\ refCount \in [Plans -> 0..(MaxPlans + 2)]
    /\ old \in [Plans -> Plans \cup {NULL}]
    /\ overReleased \subseteq Plans


\* ------------------------------------------------------------------ claims

\* The steps of plan p's setter call.
SetterStep(p) ==
    /\ pc[p] \in {"created", "loaded", "stored"}
    /\ pc'[p] \in {"loaded", "stored", "published"}
    /\ pc'[p] # pc[p]

\* A mutator's read of a slot.
ReadStep(t) == frame[t] = NoFrame /\ frame'[t] # NoFrame

OSRKinds == {"m_osrEntryCallees", "m_osrEntryCallee"}

\* C1: a replacement or OSR-entry slot that is non-empty is non-empty after
\* every step of every thread: no interleaving of the setters empties it.
SlotNeverCleared ==
    [][\A s \in AllSlots : SlotValue(s) # NULL => SlotValue(s)' # NULL]_vars

\* C1 witness: two setter calls on the same slot have both completed and the
\* slot is set.
SlotOverwrittenStillSet ==
    \E p, q \in Plans :
        /\ p # q
        /\ pc[p] \in {"published", "done"} /\ pc[q] \in {"published", "done"}
        /\ target[p] # NoSlot /\ target[p] = target[q]
        /\ SlotValue(target[p]) \in {p, q}

IdempotentPublication ==
    \A p, q \in Plans :
        (/\ p # q
         /\ pc[p] = "done" /\ pc[q] = "done"
         /\ target[p] # NoSlot /\ target[p] = target[q]
         /\ tier[p] = tier[q]
         /\ \A r \in Plans \ {p, q} : target[r] # target[p]
         /\ SlotValue(target[p]) # p)
        => /\ SlotValue(target[p]) = q
           /\ refCount[q] = 1
           /\ Destroyed(p)
           /\ overReleased = {}

\* C4 (as claimed): a store into a slot that holds a callee never replaces it
\* by another callee of the same tier (the first publication wins).
FirstPublishWins ==
    [][\A s \in AllSlots :
          (SlotValue(s) # NULL /\ SlotValue(s)' # SlotValue(s))
              => tier[SlotValue(s)'] # tier[SlotValue(s)]]_vars

\* C5 (as claimed): the callee a mutator's frame is running is not destroyed.
FrameCalleeAlive ==
    \A t \in Mutators : frame[t] # NoFrame => ~Destroyed(frame[t].callee)

\* C6: every callee in a slot, and every callee whose reference has been
\* passed to a setter, has its exception handlers linked.
PublishedCalleeLinked ==
    /\ \A s \in AllSlots : SlotValue(s) # NULL => linked[SlotValue(s)]
    /\ \A p \in Plans : pc[p] \in {"created", "loaded", "stored", "published"}
                            => linked[p]

\* C6 witness: a callee is in a slot while another one is still inside its
\* constructor, not linked yet.
PublishedWhileOtherConstructing ==
    \E s \in AllSlots, p \in Plans :
        SlotValue(s) # NULL /\ pc[p] = "constructing" /\ ~linked[p]

\* C7 (as claimed): once the publication of a Baseline callee into an LLInt
\* replacement slot has completed, the slot holds that callee in every later
\* state.
BaselineStaysPublished ==
    [][\A f \in Funcs, m \in MemoryMode :
          (/\ m_replacements[f][m] # NULL
           /\ tier[m_replacements[f][m]] = "BBQMode"
           /\ pc[m_replacements[f][m]] \in {"published", "done"})
          => m_replacements'[f][m] = m_replacements[f][m]]_vars

\* C7 (amended): a slot changes only by the store of a setter call on that
\* slot, which puts the caller's callee there (an OSR-entry callee into an
\* OSR-entry slot, a Baseline or Optimizing callee into a replacement
\* slot); so a published callee stays until a later publication into the
\* same slot, an OSR-entry slot stays empty until an OSR-entry publication,
\* and a read returns the pointer the slot holds at that moment.
PublishedUntilOverwritten ==
    [][/\ \A s \in AllSlots :
             SlotValue(s)' # SlotValue(s) =>
                 \E p \in Plans :
                     /\ pc[p] = "loaded" /\ pc'[p] = "stored"
                     /\ target[p] = s
                     /\ SlotValue(s)' = p
                     /\ (tier[p] = "OMGForOSREntryMode") <=> (s.kind \in OSRKinds)
       /\ \A t \in Mutators :
             ReadStep(t) => frame'[t].callee = SlotValue(frame'[t].from)]_vars

\* C7 witness: a mutator runs the Baseline callee it read from an LLInt
\* replacement slot after the publication completed, and the OSR-entry slot
\* of the same function and mode is empty.
CallSiteRunsBaseline ==
    \E t \in Mutators :
        /\ frame[t] # NoFrame
        /\ frame[t].from.kind = "m_replacements"
        /\ tier[frame[t].callee] = "BBQMode"
        /\ pc[frame[t].callee] \in {"published", "done"}
        /\ m_osrEntryCallees[frame[t].from.f][frame[t].from.m] = NULL

\* C8: a setter call on an LLInt callee for mode M changes no slot but that
\* callee's slot of that kind for M (its function's and mode's own), and
\* puts nothing there but its argument.
SetterFrameEffect ==
    [][\A p \in Plans :
          (SetterStep(p) /\ target'[p] \in LLIntSlots) =>
              /\ target'[p].f = index[p] /\ target'[p].m = mode[p]
              /\ \A s \in AllSlots :
                    IF s = target'[p]
                    THEN SlotValue(s)' \in {SlotValue(s), p}
                    ELSE SlotValue(s)' = SlotValue(s)]_vars

\* C8 witness: a setter has stored into a slot of an LLInt callee whose slot
\* for the other mode and whose slot of the other kind hold other callees.
StoreBesideOtherSlots ==
    \E p \in Plans :
        /\ pc[p] = "stored"
        /\ target[p].kind = "m_replacements"
        /\ SlotValue(target[p]) = p
        /\ \E s \in LLIntSlots :
              /\ s.f = target[p].f /\ s # target[p]
              /\ SlotValue(s) \notin {NULL, p}

TierRank(c) == IF tier[c] = "OMGMode" THEN 2 ELSE 1

\* C9 (as claimed): the tier of the callee in an LLInt replacement slot never
\* goes down.
ReplacementTierMonotonic ==
    [][\A f \in Funcs, m \in MemoryMode :
          m_replacements[f][m] # NULL
              => TierRank(m_replacements'[f][m]) >= TierRank(m_replacements[f][m])]_vars

\* C10 (as claimed): an OSR-entry slot of an LLInt callee is set only when
\* the compilation of the function's normal code for that mode has been
\* requested (a Baseline or Optimizing plan of that function and mode
\* exists); the OSR-entry slot of a BBQ callee is set only on an existing
\* BBQ callee.
OSREntryOnlyAfterNormalCode ==
    /\ \A f \in Funcs, m \in MemoryMode :
          m_osrEntryCallees[f][m] # NULL =>
              \E q \in Plans :
                  /\ pc[q] # "idle"
                  /\ tier[q] \in {"BBQMode", "OMGMode"}
                  /\ index[q] = f /\ mode[q] = m
    /\ \A b \in Plans :
          m_osrEntryCallee[b] # NULL => Constructed(b) /\ tier[b] = "BBQMode"


\* C12: a failed compilation leaves every slot exactly as it was: the step
\* that reports the failure changes no slot, the failed plan stays failed and
\* never starts a setter call, no slot and no frame ever holds its result,
\* and a slot changes only by the store of a setter call of a plan that
\* created its callee, so until such a store calls see what they saw before.
FailedCompilationLeavesSlots ==
    [][/\ \A p \in Plans :
            pc[p] # "failed" /\ pc'[p] = "failed" => slots' = slots
       /\ \A p \in Plans :
            pc[p] = "failed" => pc'[p] = "failed" /\ target'[p] = NoSlot
       /\ \A p \in Plans :
            pc'[p] = "failed" =>
                /\ \A s \in Slots' : SlotValue(s)' # p
                /\ \A t \in Mutators : frame'[t].callee # p
       /\ slots' # slots =>
            \E q \in Plans :
                /\ pc[q] = "loaded" /\ pc'[q] = "stored"
                /\ Constructed(q)
                /\ SlotValue(target[q])' = q
                /\ \A s \in Slots \ {target[q]} : SlotValue(s)' = SlotValue(s)
      ]_allVars

\* A Baseline compilation failed, its slot is still unset, and another
\* plan's publication went through.
FailedBesideUnsetSlot ==
    \E p, q \in Plans :
        /\ pc[p] = "failed" /\ tier[p] = "BBQMode"
        /\ m_replacements[index[p]][mode[p]] = NULL
        /\ pc[q] = "published"

\* C13: Optimizing and OSR-entry callees are terminal: their replacement and
\* OSR-entry slots do not exist (stay empty), a store of a setter call goes to
\* a slot of an LLInt or BBQ callee, and the call of setOSREntryCallee on a
\* terminal callee aborts without changing a slot.
TerminalCalleeHasNoSlots ==
    [][/\ \A b \in Plans :
            tier'[b] # "BBQMode" =>
                m_replacement'[b] = NULL /\ m_osrEntryCallee'[b] = NULL
       /\ \A q \in Plans :
            pc[q] = "loaded" /\ pc'[q] = "stored" /\ target[q] \in BBQSlots =>
                tier[target[q].b] = "BBQMode"
       /\ \A p \in Plans :
            pc[p] # "aborted" /\ pc'[p] = "aborted" =>
                /\ slots' = slots
                /\ \E c \in Plans :
                      Constructed(c) /\ tier[c] \in {"OMGMode", "OMGForOSREntryMode"}
      ]_allVars

\* setOSREntryCallee was called on an Optimizing callee that sits published
\* in a slot: the process aborted and the slot still holds that callee.
AbortedOnPublishedOptimizing ==
    \E p, c \in Plans :
        /\ pc[p] = "aborted"
        /\ tier[c] = "OMGMode" /\ pc[c] = "published"
        /\ target[c] # NoSlot /\ SlotValue(target[c]) = c

\* The OSR-entry slot of BBQ callee b.
OSRSlotOf(b) == [kind |-> "m_osrEntryCallee", b |-> b]

\* C27: a BBQ callee has one OSR-entry slot for all memory modes:
\* setOSREntryCallee can be called on it with an OSR-entry callee of any
\* mode, its store puts that callee into the one slot whatever was there,
\* and osrEntryCallee() returns what the slot holds to every caller.
BBQOSREntrySlotIgnoresMode ==
    [][/\ \A p, b \in Plans :
            /\ pc[p] = "created" /\ tier[p] = "OMGForOSREntryMode"
            /\ tier[b] = "BBQMode" /\ Constructed(b) /\ ~Destroyed(b)
            /\ index[b] = index[p]
            => OSRSlotOf(b) \in TargetsOf(p)
       /\ \A p \in Plans :
            /\ pc[p] = "loaded" /\ pc'[p] = "stored"
            /\ target[p].kind = "m_osrEntryCallee"
            => m_osrEntryCallee'[target[p].b] = p
       /\ \A t \in Mutators :
            ReadStep(t) /\ frame'[t].from.kind = "m_osrEntryCallee" =>
                frame'[t].callee = m_osrEntryCallee[frame'[t].from.b]
      ]_allVars

\* An OSR-entry callee compiled for one memory mode has just been stored
\* over one compiled for the other mode in the slot of a BBQ callee.
OSREntryOfOtherModeReplaced ==
    \E p, q \in Plans :
        /\ pc[p] = "stored"
        /\ target[p].kind = "m_osrEntryCallee"
        /\ old[p] = q
        /\ mode[q] # mode[p]
        /\ m_osrEntryCallee[target[p].b] = p

\* ------------------------------------ BBQCallee: the OSR-compilation flag
\* WasmCallee.h:199-200, 217-220.  m_didStartCompilingOSREntryCallee is a
\* plain bool with a getter and a setter; a thread whose loop counter crosses
\* the OSR threshold calls the getter and, when it returned false, calls the
\* setter with true and requests the compilation.  Nothing in the class makes
\* the test and the set one step.

NumBBQCallees == 2
NumOSRThreads == 2
MaxCrossings == 2

BBQCallees == 1..NumBBQCallees
OSRThreads == 1..NumOSRThreads

OSRInit ==
    /\ m_didStartCompilingOSREntryCallee = [b \in BBQCallees |-> FALSE]
    /\ osrPc = [t \in OSRThreads |-> "running"]
    /\ osrCallee = [t \in OSRThreads |-> 1]
    /\ osrSaw = [t \in OSRThreads |-> FALSE]
    /\ osrCrossings = [t \in OSRThreads |-> 0]
    /\ osrJobs = [b \in BBQCallees |-> 0]

\* bool didStartCompilingOSREntryCallee() const, called by thread t when its
\* loop in callee b crosses the threshold.
DidStartCompilingOSREntryCallee(t, b) ==
    /\ osrPc[t] = "running"
    /\ osrCrossings[t] < MaxCrossings
    /\ osrCrossings' = [osrCrossings EXCEPT ![t] = @ + 1]
    /\ osrCallee' = [osrCallee EXCEPT ![t] = b]
    /\ osrSaw' = [osrSaw EXCEPT ![t] = m_didStartCompilingOSREntryCallee[b]]
    /\ osrPc' = [osrPc EXCEPT ![t] = "tested"]
    /\ UNCHANGED <<m_didStartCompilingOSREntryCallee, osrJobs>>
    /\ UNCHANGED outsideOSR

\* void setDidStartCompilingOSREntryCallee(bool value), called with true by
\* the thread that saw false; that thread then requests the compilation.
SetDidStartCompilingOSREntryCallee(t) ==
    /\ osrPc[t] = "tested"
    /\ ~osrSaw[t]
    /\ m_didStartCompilingOSREntryCallee' =
          [m_didStartCompilingOSREntryCallee EXCEPT ![osrCallee[t]] = TRUE]
    /\ osrJobs' = [osrJobs EXCEPT ![osrCallee[t]] = @ + 1]
    /\ osrPc' = [osrPc EXCEPT ![t] = "running"]
    /\ UNCHANGED <<osrCallee, osrSaw, osrCrossings>>
    /\ UNCHANGED outsideOSR

\* The thread that saw true goes on running the Baseline code.
ContinueInBaseline(t) ==
    /\ osrPc[t] = "tested"
    /\ osrSaw[t]
    /\ osrPc' = [osrPc EXCEPT ![t] = "running"]
    /\ UNCHANGED <<m_didStartCompilingOSREntryCallee, osrCallee, osrSaw,
                   osrCrossings, osrJobs>>
    /\ UNCHANGED outsideOSR

OSRNext ==
    \/ \E t \in OSRThreads, b \in BBQCallees :
          DidStartCompilingOSREntryCallee(t, b)
    \/ \E t \in OSRThreads : SetDidStartCompilingOSREntryCallee(t)
    \/ \E t \in OSRThreads : ContinueInBaseline(t)

\* C11: for each Baseline callee the flag, once true, stays true, and at most
\* one OSR compilation is ever requested, also when two threads test the
\* flag before either sets it.
AtMostOneOSRJob ==
    /\ \A b \in BBQCallees : osrJobs[b] <= 1
    /\ \A b \in BBQCallees :
          osrJobs[b] > 0 => m_didStartCompilingOSREntryCallee[b]

\* ------------------------- OptimizingJITCallee: exception handler table
\* WasmCallee.h:136-145 and 66-68, 90.  The constructor checks that the two
\* argument vectors have the same length and calls linkExceptionHandlers,
\* which fills m_exceptionHandlers; handlerForIndex searches that table.
\* The bodies of linkExceptionHandlers and handlerForIndex are in
\* WasmCallee.cpp and WasmHandlerInfo.cpp; they are modelled as sections 4.1
\* and 4.2 of the specification describe them.

MaxHandlers == 2
MaxAddress == 2

\* Positions in the function's code (bytecode offsets or call site indices).
Addresses == 0..MaxAddress
\* The exception tags of the module.
Tags == {"T1", "T2"}
CatchAll == "CatchAll"
NoTag == "NoTag"
\* The null HandlerInfo pointer.
NoHandler == 0
NoQuery == [address |-> 0, tag |-> NoTag, asked |-> FALSE]

\* UnlinkedHandlerInfo: a half-open range [start, end) and a tag filter.
UnlinkedHandlerInfo ==
    {h \in [start : Addresses, end : 1..(MaxAddress + 1),
            tag : Tags \cup {CatchAll}] : h.start < h.end}

\* The code location the assembler resolved for the i-th landing pad.
LandingPad(i) == 100 + i

RECURSIVE SeqsUpTo(_, _)
SeqsUpTo(S, n) ==
    IF n = 0 THEN {<<>>}
    ELSE LET shorter == SeqsUpTo(S, n - 1) IN
         shorter \cup {Append(q, x) : q \in {r \in shorter : Len(r) = n - 1},
                                       x \in S}

\* The handler table before the constructor body has run, no call made.
EHRest ==
    /\ ehMode = "OMGMode"
    /\ unlinkedExceptionHandlers = <<>>
    /\ exceptionHandlerLocations = <<>>
    /\ ehPc = "constructing"
    /\ m_exceptionHandlers = <<>>
    /\ ehQuery = NoQuery
    /\ ehResult = NoHandler

\* The constructor is entered with any two argument vectors.
EHInit ==
    /\ ehMode \in JITTiers
    /\ unlinkedExceptionHandlers \in SeqsUpTo(UnlinkedHandlerInfo, MaxHandlers)
    /\ exceptionHandlerLocations \in
          {[i \in 1..n |-> LandingPad(i)] : n \in 0..MaxHandlers}
    /\ ehPc = "constructing"
    /\ m_exceptionHandlers = <<>>
    /\ ehQuery = NoQuery
    /\ ehResult = NoHandler

\* HandlerInfo::initialize(unlinked, location): the linked record.
HandlerInfo(u, location) ==
    [start |-> u.start, end |-> u.end, tag |-> u.tag, target |-> location]

\* linkExceptionHandlers that pairs the descriptors with the locations taken
\* from the back of the vector.
linkExceptionHandlersReversed(unlinked, locations) ==
    [i \in 1..Len(unlinked) |->
        HandlerInfo(unlinked[i], locations[Len(locations) + 1 - i])]

\* linkExceptionHandlers(unlinked, locations): a table of as many records as
\* there are descriptors, record i built from descriptor i and location i.
linkExceptionHandlers(unlinked, locations) ==
    [i \in 1..Len(unlinked) |-> HandlerInfo(unlinked[i], locations[i])]

\* The constructor body without its RELEASE_ASSERT: it links as many pairs
\* as both vectors have.
OptimizingJITCalleeBodyUnchecked ==
    /\ ehPc = "constructing"
    /\ LET n == IF Len(unlinkedExceptionHandlers) <= Len(exceptionHandlerLocations)
                THEN Len(unlinkedExceptionHandlers)
                ELSE Len(exceptionHandlerLocations) IN
         m_exceptionHandlers' =
             linkExceptionHandlers(SubSeq(unlinkedExceptionHandlers, 1, n),
                                   exceptionHandlerLocations)
    /\ ehPc' = "created"
    /\ UNCHANGED <<ehMode, unlinkedExceptionHandlers, exceptionHandlerLocations,
                   ehQuery, ehResult>>
    /\ UNCHANGED outsideEH

\* The body of the OptimizingJITCallee constructor: RELEASE_ASSERT that the
\* vectors have the same size, then linkExceptionHandlers.
OptimizingJITCalleeBody ==
    /\ ehPc = "constructing"
    /\ IF Len(unlinkedExceptionHandlers) = Len(exceptionHandlerLocations)
       THEN /\ m_exceptionHandlers' =
                  linkExceptionHandlers(unlinkedExceptionHandlers,
                                        exceptionHandlerLocations)
            /\ ehPc' = "created"
       ELSE /\ ehPc' = "aborted"
            /\ UNCHANGED m_exceptionHandlers
    /\ UNCHANGED <<ehMode, unlinkedExceptionHandlers, exceptionHandlerLocations,
                   ehQuery, ehResult>>
    /\ UNCHANGED outsideEH

\* The address lies in the record's range.
Contains(h, address) == h.start <= address /\ address < h.end
\* The record's tag filter lets the thrown tag through.
Matches(h, tag) == h.tag = CatchAll \/ h.tag = tag
RangeSize(h) == h.end - h.start

\* The records of the table that qualify for (address, tag).
Qualifying(table, address, tag) ==
    {i \in 1..Len(table) :
        Contains(table[i], address) /\ Matches(table[i], tag)}

\* handlerForIndex that scans the table in its order and returns the first
\* record that qualifies.
handlerForIndexFirstQualifying(table, address, tag) ==
    LET C == Qualifying(table, address, tag) IN
    IF C = {} THEN NoHandler ELSE CHOOSE i \in C : \A j \in C : i <= j

\* handlerForIndex that does not look at the tag filters.
handlerForIndexAnyTag(table, address, tag) ==
    LET C == {i \in 1..Len(table) : Contains(table[i], address)} IN
    IF C = {} THEN NoHandler
    ELSE CHOOSE i \in C :
            \A j \in C :
                \/ RangeSize(table[i]) < RangeSize(table[j])
                \/ RangeSize(table[i]) = RangeSize(table[j]) /\ i <= j

\* handlerForIndex(instance, index, tag): the qualifying record of the
\* smallest range (the first of the table among equal sizes), or the null
\* pointer when no record qualifies.  The result is the record's position.
handlerForIndex(table, address, tag) ==
    LET C == Qualifying(table, address, tag) IN
    IF C = {} THEN NoHandler
    ELSE CHOOSE i \in C :
            \A j \in C :
                \/ RangeSize(table[i]) < RangeSize(table[j])
                \/ RangeSize(table[i]) = RangeSize(table[j]) /\ i <= j

\* A thread that unwinds through a frame of the callee looks a handler up.
HandlerForIndex(address, tag) ==
    /\ ehPc = "created"
    /\ ehQuery' = [address |-> address, tag |-> tag, asked |-> TRUE]
    /\ ehResult' = handlerForIndex(m_exceptionHandlers, address, tag)
    /\ UNCHANGED <<ehMode, unlinkedExceptionHandlers, exceptionHandlerLocations,
                   ehPc, m_exceptionHandlers>>
    /\ UNCHANGED outsideEH

EHNext ==
    \/ OptimizingJITCalleeBody
    \/ \E a \in Addresses, t \in Tags \cup {NoTag} : HandlerForIndex(a, t)

\* C14: when the two argument vectors differ in length the constructor of
\* every optimizing-family callee takes the fatal path: its only step aborts,
\* the handler table stays empty, no callee exists to be looked up.
MismatchedLengthsAbort ==
    [][Len(unlinkedExceptionHandlers) # Len(exceptionHandlerLocations) =>
          /\ ehPc' = "aborted"
          /\ m_exceptionHandlers' = <<>>
          /\ ~ehQuery'.asked /\ ehResult' = NoHandler
      ]_allVars

\* The constructor of a BBQ callee aborted on two descriptors and one location.
AbortedOnShortLocations ==
    /\ ehPc = "aborted"
    /\ ehMode = "BBQMode"
    /\ Len(unlinkedExceptionHandlers) = 2
    /\ Len(exceptionHandlerLocations) = 1

\* C15: with vectors of equal length n the linked table has exactly n
\* records, and record i has the range and the tag filter of descriptor i
\* and the landing pad of location i.
HandlerTablePairsInputs ==
    ehPc = "created" =>
        /\ Len(m_exceptionHandlers) = Len(unlinkedExceptionHandlers)
        /\ Len(m_exceptionHandlers) = Len(exceptionHandlerLocations)
        /\ \A i \in 1..Len(unlinkedExceptionHandlers) :
              /\ m_exceptionHandlers[i].start = unlinkedExceptionHandlers[i].start
              /\ m_exceptionHandlers[i].end = unlinkedExceptionHandlers[i].end
              /\ m_exceptionHandlers[i].tag = unlinkedExceptionHandlers[i].tag
              /\ m_exceptionHandlers[i].target = exceptionHandlerLocations[i]

\* A table of two different records has been linked.
LinkedTwoHandlers ==
    /\ ehPc = "created"
    /\ Len(m_exceptionHandlers) = 2
    /\ unlinkedExceptionHandlers[1] # unlinkedExceptionHandlers[2]
    /\ m_exceptionHandlers[1].target # m_exceptionHandlers[2].target

\* The range of record i lies inside the range of record j and is smaller.
Nested(table, i, j) ==
    /\ table[j].start <= table[i].start
    /\ table[i].end <= table[j].end
    /\ RangeSize(table[i]) < RangeSize(table[j])

\* No other record qualifies for the query with a range as small as k's.
NoRival(table, k) ==
    \A l \in Qualifying(table, ehQuery.address, ehQuery.tag) \ {k} :
        RangeSize(table[l]) > RangeSize(table[k])

LookupReturnsSmallestQualifying ==
    ehQuery.asked =>
        LET C == Qualifying(m_exceptionHandlers, ehQuery.address, ehQuery.tag) IN
        /\ ehResult = NoHandler <=> C = {}
        /\ ehResult # NoHandler =>
              /\ ehResult \in 1..Len(m_exceptionHandlers)
              /\ Contains(m_exceptionHandlers[ehResult], ehQuery.address)
              /\ \/ m_exceptionHandlers[ehResult].tag = CatchAll
                 \/ m_exceptionHandlers[ehResult].tag = ehQuery.tag
              /\ \A j \in C :
                    RangeSize(m_exceptionHandlers[ehResult]) <=
                        RangeSize(m_exceptionHandlers[j])

\* The innermost record's tag is not the thrown one: the lookup skipped it
\* and returned the enclosing catch-all record.
InnermostSkippedOnTag ==
    /\ ehQuery.asked
    /\ \E i, j \in 1..Len(m_exceptionHandlers) :
          /\ Nested(m_exceptionHandlers, i, j)
          /\ Contains(m_exceptionHandlers[i], ehQuery.address)
          /\ m_exceptionHandlers[i].tag \in Tags
          /\ m_exceptionHandlers[i].tag # ehQuery.tag
          /\ m_exceptionHandlers[j].tag = CatchAll
          /\ ehResult = j

\* ---------------------- JSWebAssemblyCalleeGroup: the import trampolines
\* JSWebAssemblyCalleeGroup.cpp:47-67.  The constructor sizes
\* m_wasmToJSExitStubs to the number of function imports and, import by
\* import, asks wasmToJS for the trampoline; the first OutOfMemory failure
\* sets m_errorMessage and returns from the constructor.

MaxImports == 3
NumSignatures == 3

Signatures == 0..(NumSignatures - 1)
\* A default-constructed MacroAssemblerCodeRef (no code).
NoCode == [import |-> -1, signature |-> -1]
NoError == ""
OutOfExecutableMemory == "Out of executable memory"

\* The member initialisers have run for a module without imports.
CGRest ==
    /\ functionImportCount = 0
    /\ importFunctionSignatureIndices = <<>>
    /\ importIndex = 0
    /\ m_wasmToJSExitStubs = <<>>
    /\ m_errorMessage = NoError
    /\ cgPc = "constructing"

\* The member initialisers have run: the stub vector has one default entry
\* per import, the error message is null, the loop is about to start.
CGInit ==
    /\ functionImportCount \in 0..MaxImports
    /\ importFunctionSignatureIndices \in [1..functionImportCount -> Signatures]
    /\ importIndex = 0
    /\ m_wasmToJSExitStubs = [i \in 1..functionImportCount |-> NoCode]
    /\ m_errorMessage = NoError
    /\ cgPc = "constructing"

\* Wasm::wasmToJS(vm, m_callLinkInfos, signatureIndex, importIndex) when it
\* succeeds: the code of the trampoline of that import.
wasmToJS(signatureIndex, i) == [import |-> i, signature |-> signatureIndex]

\* One round of the loop in which wasmToJS returns a binding: the stub is
\* stored at importIndex and the loop goes to the next import.
StoreExitStub ==
    /\ cgPc = "constructing"
    /\ importIndex < functionImportCount
    /\ m_wasmToJSExitStubs' =
          [m_wasmToJSExitStubs EXCEPT ![importIndex + 1] =
              wasmToJS(importFunctionSignatureIndices[importIndex + 1],
                       importIndex)]
    /\ importIndex' = importIndex + 1
    /\ UNCHANGED <<functionImportCount, importFunctionSignatureIndices,
                   m_errorMessage, cgPc>>
    /\ UNCHANGED outsideCG

\* BindingFailed with the failure recorded and the loop going on to the next
\* import (continue instead of return).
BindingFailedContinue ==
    /\ cgPc = "constructing"
    /\ importIndex < functionImportCount
    /\ m_errorMessage' = OutOfExecutableMemory
    /\ importIndex' = importIndex + 1
    /\ UNCHANGED <<functionImportCount, importFunctionSignatureIndices,
                   m_wasmToJSExitStubs, cgPc>>
    /\ UNCHANGED outsideCG

\* One round of the loop in which wasmToJS returns
\* BindingFailure::OutOfMemory: the message is set and the constructor
\* returns.
BindingFailed ==
    /\ cgPc = "constructing"
    /\ importIndex < functionImportCount
    /\ m_errorMessage' = OutOfExecutableMemory
    /\ cgPc' = "returned"
    /\ UNCHANGED <<functionImportCount, importFunctionSignatureIndices,
                   importIndex, m_wasmToJSExitStubs>>
    /\ UNCHANGED outsideCG

\* The loop condition fails: the constructor returns.
LoopEnd ==
    /\ cgPc = "constructing"
    /\ importIndex = functionImportCount
    /\ cgPc' = "returned"
    /\ UNCHANGED <<functionImportCount, importFunctionSignatureIndices,
                   importIndex, m_wasmToJSExitStubs, m_errorMessage>>
    /\ UNCHANGED outsideCG

CGNext ==
    \/ StoreExitStub
    \/ BindingFailed
    \/ LoopEnd

\* C18: when the trampoline of import i cannot be created the constructor
\* has returned with the message "Out of executable memory", the loop
\* stopped at i, and no stub is stored at i or after it (the imports before
\* i hold theirs); when the constructor returns without a failure the
\* message is empty and every import index holds its own trampoline.
ImportFailureStopsConstruction ==
    /\ m_errorMessage \in {NoError, OutOfExecutableMemory}
    /\ m_errorMessage # NoError =>
          /\ cgPc = "returned"
          /\ importIndex < functionImportCount
          /\ \A k \in 0..(functionImportCount - 1) :
                IF k < importIndex
                THEN m_wasmToJSExitStubs[k + 1] =
                         wasmToJS(importFunctionSignatureIndices[k + 1], k)
                ELSE m_wasmToJSExitStubs[k + 1] = NoCode
    /\ cgPc = "returned" /\ m_errorMessage = NoError =>
          /\ importIndex = functionImportCount
          /\ \A k \in 0..(functionImportCount - 1) :
                /\ m_wasmToJSExitStubs[k + 1].import = k
                /\ m_wasmToJSExitStubs[k + 1].signature =
                       importFunctionSignatureIndices[k + 1]
    /\ Len(m_wasmToJSExitStubs) = functionImportCount

\* The second of three imports failed: the first holds its trampoline, the
\* other two hold none.
SecondImportFailed ==
    /\ functionImportCount = 3
    /\ m_errorMessage = OutOfExecutableMemory
    /\ importIndex = 1
    /\ m_wasmToJSExitStubs[1] # NoCode
    /\ m_wasmToJSExitStubs[3] = NoCode

\* --------------------------------------------------- WTF::FixedVector
\* FixedVector.h.  A FixedVector owns at most one storage through
\* m_storage, which is null for an empty vector; size(), data(), begin(),
\* fill() test m_storage, while at(), operator[], first() and last() call
\* m_storage->at(i) without a test.  EmbeddedFixedVector is not part of the
\* sources; its at(i) is taken to be bounds-checked (an index that is not
\* below the size aborts), as section 4.4 of the specification has it.

MaxSize == 2
NumElements == 2
NumStorages == 3
\* size_t arithmetic is modular; the model keeps 16 bits of it.
SizeTModulus == 65536

FixedVectors == {"a", "b"}
Storages == 1..NumStorages
\* The values stored: the callees of the group.
Elements == 1..NumElements
\* The indices a caller passes: inside and outside every vector.
Indices == 0..MaxSize

NoResult ==
    [op |-> "none", v |-> "a", from |-> "a", index |-> 0, before |-> <<>>,
     outcome |-> "none", value |-> NULL,
                    freed |-> <<>>]

\* Both vectors default-constructed: no storage.
FVInit ==
    /\ m_storage = [v \in FixedVectors |-> NULL]
    /\ fvHeap = [st \in Storages |-> <<>>]
    /\ fvLive = {}
    /\ fvResult = NoResult

\* The elements of vector v.
Contents(v) == IF m_storage[v] = NULL THEN <<>> ELSE fvHeap[m_storage[v]]

\* size_t size() const
size(v) == IF m_storage[v] = NULL THEN 0 ELSE Len(fvHeap[m_storage[v]])

\* operator=(const Vector&): the new storage is created from the vector (none
\* for an empty vector), then the unique_ptr frees the storage it held.
AssignVector(v, other) ==
    /\ IF other = <<>>
       THEN /\ m_storage' = [m_storage EXCEPT ![v] = NULL]
            /\ fvHeap' = [st \in Storages |->
                             IF st = m_storage[v] THEN <<>> ELSE fvHeap[st]]
            /\ fvLive' = fvLive \ {m_storage[v]}
       ELSE \E new \in Storages \ fvLive :
            /\ \A st \in Storages \ fvLive : new <= st
            /\ m_storage' = [m_storage EXCEPT ![v] = new]
            /\ fvHeap' = [st \in Storages |->
                             IF st = new THEN other
                             ELSE IF st = m_storage[v] THEN <<>>
                             ELSE fvHeap[st]]
            /\ fvLive' = (fvLive \cup {new}) \ {m_storage[v]}
    /\ fvResult' = NoResult
    /\ UNCHANGED outsideFV

\* What m_storage->at(i) can do.  On a null m_storage the call dereferences
\* a null pointer, which is undefined: the build may fault or go on with
\* whatever it reads.  On a storage it is EmbeddedFixedVector::at.
AtOutcomes(v, i) ==
    IF m_storage[v] = NULL THEN {"abort", "undefined"}
    ELSE IF i < Len(fvHeap[m_storage[v]]) THEN {"value"}
    ELSE {"abort"}

\* The reference m_storage->at(i) returns when it returns one.
AtValue(v, i, outcome) ==
    IF outcome = "value" THEN fvHeap[m_storage[v]][i + 1] ELSE NULL

\* T& at(size_t i) and T& operator[](size_t i), the element read.
At(op, v, i, outcome) ==
    /\ outcome \in AtOutcomes(v, i)
    /\ fvResult' = [op |-> op, v |-> v, from |-> v, index |-> i, before |-> Contents(v),
                    outcome |-> outcome, value |-> AtValue(v, i, outcome),
                    freed |-> <<>>]
    /\ UNCHANGED <<m_storage, fvHeap, fvLive>>
    /\ UNCHANGED outsideFV

\* T& first(): (*this)[0].
First(v, outcome) ==
    /\ outcome \in AtOutcomes(v, 0)
    /\ fvResult' = [op |-> "first", v |-> v, from |-> v, index |-> 0,
                    before |-> Contents(v), outcome |-> outcome,
                    value |-> AtValue(v, 0, outcome),
                    freed |-> <<>>]
    /\ UNCHANGED <<m_storage, fvHeap, fvLive>>
    /\ UNCHANGED outsideFV

\* T& last(): (*this)[size() - 1], the subtraction in size_t.
Last(v, outcome) ==
    LET i == (size(v) - 1) % SizeTModulus IN
    /\ outcome \in AtOutcomes(v, i)
    /\ fvResult' = [op |-> "last", v |-> v, from |-> v, index |-> i,
                    before |-> Contents(v), outcome |-> outcome,
                    value |-> AtValue(v, i, outcome),
                    freed |-> <<>>]
    /\ UNCHANGED <<m_storage, fvHeap, fvLive>>
    /\ UNCHANGED outsideFV

\* fill that puts the value into the first element only.
FillFirst(v, val) ==
    /\ fvHeap' = IF m_storage[v] = NULL THEN fvHeap
                 ELSE [fvHeap EXCEPT ![m_storage[v]][1] = val]
    /\ fvResult' = [op |-> "fill", v |-> v, from |-> v, index |-> 0,
                    before |-> Contents(v), outcome |-> "done", value |-> val,
                    freed |-> <<>>]
    /\ UNCHANGED <<m_storage, fvLive>>
    /\ UNCHANGED outsideFV

\* void fill(const T& val): nothing without a storage, else every element of
\* the storage becomes val.
fill(v, val) ==
    /\ fvHeap' = IF m_storage[v] = NULL THEN fvHeap
                 ELSE [fvHeap EXCEPT ![m_storage[v]] =
                          [k \in 1..Len(@) |-> val]]
    /\ fvResult' = [op |-> "fill", v |-> v, from |-> v, index |-> 0,
                    before |-> Contents(v), outcome |-> "done", value |-> val,
                    freed |-> <<>>]
    /\ UNCHANGED <<m_storage, fvLive>>
    /\ UNCHANGED outsideFV

\* vector[i] = val: the caller assigns through the reference operator[]
\* returned (as the callee group constructor does with its stubs).
AssignElement(v, i, val) ==
    /\ "value" \in AtOutcomes(v, i)
    /\ fvHeap' = [fvHeap EXCEPT ![m_storage[v]][i + 1] = val]
    /\ fvResult' = [op |-> "assign", v |-> v, from |-> v, index |-> i,
                    before |-> Contents(v), outcome |-> "value", value |-> val,
                    freed |-> <<>>]
    /\ UNCHANGED <<m_storage, fvLive>>
    /\ UNCHANGED outsideFV

\* bool operator==(const FixedVector&): two vectors without storage are
\* equal, a vector without storage equals an empty storage, two storages
\* are compared element by element.
Equal(v, w) ==
    IF m_storage[v] = NULL
    THEN IF m_storage[w] = NULL THEN TRUE ELSE fvHeap[m_storage[w]] = <<>>
    ELSE IF m_storage[w] = NULL THEN fvHeap[m_storage[v]] = <<>>
    ELSE fvHeap[m_storage[v]] = fvHeap[m_storage[w]]

\* A copy constructor that copies the pointer: both vectors point at one
\* storage.
CopyConstructShared(v, other) ==
    /\ v # other
    /\ m_storage[v] = NULL
    /\ m_storage' = [m_storage EXCEPT ![v] = m_storage[other]]
    /\ fvResult' = [op |-> "copy", v |-> v, from |-> other, index |-> 0,
                    before |-> Contents(other),
                    outcome |-> "equal", value |-> NULL,
                    freed |-> <<>>]
    /\ UNCHANGED <<fvHeap, fvLive>>
    /\ UNCHANGED outsideFV

\* FixedVector(const FixedVector& other): a vector that comes into being
\* with a clone of the other's storage, or with none when the other has
\* none.  The result records what operator== says right after.
CopyConstruct(v, other) ==
    /\ v # other
    /\ m_storage[v] = NULL
    /\ IF m_storage[other] = NULL
       THEN UNCHANGED <<m_storage, fvHeap, fvLive>>
       ELSE \E new \in Storages \ fvLive :
            /\ \A st \in Storages \ fvLive : new <= st
            /\ m_storage' = [m_storage EXCEPT ![v] = new]
            /\ fvHeap' = [fvHeap EXCEPT ![new] = fvHeap[m_storage[other]]]
            /\ fvLive' = fvLive \cup {new}
    /\ fvResult' = [op |-> "copy", v |-> v, from |-> other, index |-> 0,
                    before |-> Contents(other),
                    outcome |-> IF Equal(v, other)' THEN "equal"
                                ELSE "unequal",
                    value |-> NULL,
                    freed |-> <<>>]
    /\ UNCHANGED outsideFV

\* operator=(const FixedVector& other): tmp is a copy of other, swap gives
\* this vector tmp's storage and tmp this vector's old one, which tmp's
\* destructor frees.
CopyAssign(v, other) ==
    /\ IF m_storage[other] = NULL
       THEN /\ m_storage' = [m_storage EXCEPT ![v] = NULL]
            /\ fvHeap' = [st \in Storages |->
                             IF st = m_storage[v] THEN <<>> ELSE fvHeap[st]]
            /\ fvLive' = fvLive \ {m_storage[v]}
       ELSE \E new \in Storages \ fvLive :
            /\ \A st \in Storages \ fvLive : new <= st
            /\ m_storage' = [m_storage EXCEPT ![v] = new]
            /\ fvHeap' = [st \in Storages |->
                             IF st = new THEN fvHeap[m_storage[other]]
                             ELSE IF st = m_storage[v] THEN <<>>
                             ELSE fvHeap[st]]
            /\ fvLive' = (fvLive \cup {new}) \ {m_storage[v]}
    /\ fvResult' = [op |-> "copy", v |-> v, from |-> other, index |-> 0,
                    before |-> Contents(other),
                    outcome |-> IF Equal(v, other)' THEN "equal"
                                ELSE "unequal",
                    value |-> NULL,
                    freed |-> IF m_storage[v] = NULL THEN <<>> ELSE <<m_storage[v]>>]
    /\ UNCHANGED outsideFV

\* A move assignment that frees the vector's storage before it takes the
\* other's.
MoveAssignReleasesFirst(v, other) ==
    LET released == m_storage[v]
        cleared == [m_storage EXCEPT ![v] = NULL]
    IN  /\ m_storage' = [cleared EXCEPT ![v] = cleared[other], ![other] = IF other = v THEN cleared[other] ELSE NULL]
        /\ fvHeap' = [st \in Storages |-> IF st = released THEN <<>> ELSE fvHeap[st]]
        /\ fvLive' = fvLive \ {released}
        /\ fvResult' = [op |-> "move", v |-> v, from |-> other, index |-> 0,
                        before |-> Contents(other), outcome |-> "done", value |-> NULL,
                        freed |-> IF released = NULL THEN <<>> ELSE <<released>>]
        /\ UNCHANGED outsideFV

\* operator=(FixedVector&& other): tmp is move-constructed from other, which
\* leaves other's unique_ptr null; swap exchanges m_storage with tmp's; tmp's
\* destructor frees what tmp then holds.
MoveAssign(v, other) ==
    LET tmp == m_storage[other]
        moved == [m_storage EXCEPT ![other] = NULL]
        swapped == [moved EXCEPT ![v] = tmp]
        tmpAfterSwap == moved[v]
    IN  /\ m_storage' = swapped
        /\ fvHeap' = [st \in Storages |-> IF st = tmpAfterSwap THEN <<>> ELSE fvHeap[st]]
        /\ fvLive' = fvLive \ {tmpAfterSwap}
        /\ fvResult' = [op |-> "move", v |-> v, from |-> other, index |-> 0,
                        before |-> Contents(other), outcome |-> "done", value |-> NULL,
                        freed |-> IF tmpAfterSwap = NULL THEN <<>> ELSE <<tmpAfterSwap>>]
        /\ UNCHANGED outsideFV

FVNext ==
    \/ \E v \in FixedVectors, other \in SeqsUpTo(Elements, MaxSize) :
          AssignVector(v, other)
    \/ \E op \in {"at", "operator[]"}, v \in FixedVectors, i \in Indices,
          outcome \in {"value", "abort", "undefined"} : At(op, v, i, outcome)
    \/ \E v \in FixedVectors, outcome \in {"value", "abort", "undefined"} :
          First(v, outcome)
    \/ \E v \in FixedVectors, outcome \in {"value", "abort", "undefined"} :
          Last(v, outcome)
    \/ \E v \in FixedVectors, val \in Elements : fill(v, val)
    \/ \E v \in FixedVectors, i \in Indices, val \in Elements :
          AssignElement(v, i, val)
    \/ \E v, other \in FixedVectors : CopyConstruct(v, other)
    \/ \E v, other \in FixedVectors : CopyAssign(v, other)
    \/ \E v, other \in FixedVectors : MoveAssign(v, other)

\* C19: access by index is bounds-checked: an index below the size returns
\* the element at that position, and an index at or above the size, any
\* index on an empty collection included, aborts: it returns nothing and
\* reads nothing outside the collection.
AccessIsBoundsChecked ==
    fvResult.op \in {"at", "operator[]"} =>
        IF fvResult.index < Len(fvResult.before)
        THEN /\ fvResult.outcome = "value"
             /\ fvResult.value = fvResult.before[fvResult.index + 1]
        ELSE fvResult.outcome = "abort"

\* The step is one of the element operations of FixedVector.
ElementOperation(ops) == fvResult' # fvResult /\ fvResult'.op \in ops

\* C20 as stated: no element operation (at, operator[], first, last, fill)
\* changes the length of a collection or which element sits at which index.
ElementOperationsChangeNothing ==
    [][ElementOperation({"at", "operator[]", "first", "last", "fill"}) =>
          \A v \in FixedVectors : Contents(v)' = Contents(v)
      ]_allVars

\* C20, amended: no element operation changes the storage or the length of a
\* collection; at, operator[], first and last change no element either,
\* fill(val) puts val at every index of its vector, and an assignment
\* through a returned reference changes the element at that index only.
LengthFixedUnderElementOperations ==
    [][ElementOperation({"at", "operator[]", "first", "last", "fill", "assign"}) =>
          /\ m_storage' = m_storage /\ fvLive' = fvLive
          /\ \A v \in FixedVectors :
                /\ size(v)' = size(v)
                /\ v # fvResult'.v => Contents(v)' = Contents(v)
                /\ v = fvResult'.v =>
                      /\ fvResult'.op \in {"at", "operator[]", "first", "last"} =>
                            Contents(v)' = Contents(v)
                      /\ fvResult'.op = "fill" =>
                            \A k \in 1..size(v) : Contents(v)'[k] = fvResult'.value
                      /\ fvResult'.op = "assign" =>
                            \A k \in 1..size(v) :
                                Contents(v)'[k] =
                                    IF k = fvResult'.index + 1
                                    THEN fvResult'.value
                                    ELSE Contents(v)[k]
      ]_allVars

\* fill ran on a vector of two different elements: both indices now hold the
\* value filled in, the length is still two.
FilledOverDifferentElements ==
    /\ fvResult.op = "fill"
    /\ Len(fvResult.before) = 2
    /\ fvResult.before[1] # fvResult.before[2]
    /\ Contents(fvResult.v) = <<fvResult.value, fvResult.value>>

\* C26: a copy (copy construction or copy assignment) compares equal to
\* its source right after the copy and has the source's elements; two
\* vectors never point at the same storage, and a step (an element write, a
\* fill, a reassignment) that changes the contents of one vector leaves
\* the contents and the size of the other as they were (a move assignment is
\* a step on both vectors).
CopyOwnsSeparateStorage ==
    [][/\ fvResult'.op = "copy" =>
            /\ fvResult'.outcome = "equal"
            /\ \A v \in FixedVectors :
                  v = fvResult'.v => Contents(v)' = fvResult'.before
       /\ \A v, w \in FixedVectors :
            v # w =>
                /\ m_storage'[v] # NULL => m_storage'[v] # m_storage'[w]
                /\ (Contents(v)' # Contents(v) /\ fvResult'.op # "move") =>
                      /\ Contents(w)' = Contents(w)
                      /\ size(w)' = size(w)
      ]_allVars

\* Vector b has just been copied from vector a, which holds two different
\* elements: equal contents in two storages.
CopiedTwoElements ==
    /\ fvResult.op = "copy"
    /\ fvResult.v = "b" /\ fvResult.from = "a"
    /\ Len(Contents("a")) = 2
    /\ Contents("a")[1] # Contents("a")[2]
    /\ Contents("b") = Contents("a")
    /\ m_storage["a"] # m_storage["b"]

\* C36: self-assignment and move keep contents intact: a = a by copy or by
\* move leaves a with the same size and elements; a = move(b) with a distinct
\* b gives a the former contents of b, leaves b empty, and frees the former
\* storage of a once.
AssignmentKeepsContents ==
    [][\A v, w \in FixedVectors :
          (fvResult'.op \in {"copy", "move"} /\ fvResult'.v = v /\ fvResult'.from = w) =>
              IF v = w
              THEN /\ Contents(v)' = Contents(v)
                   /\ size(v)' = size(v)
                   /\ fvResult'.op = "move" =>
                         /\ m_storage'[v] = m_storage[v]
                         /\ fvLive' = fvLive
              ELSE fvResult'.op = "move" =>
                      /\ Contents(v)' = Contents(w)
                      /\ size(w)' = 0
                      /\ m_storage'[w] = NULL
                      /\ fvResult'.freed = IF m_storage[v] = NULL THEN <<>> ELSE <<m_storage[v]>>
                      /\ fvLive' = fvLive \ {m_storage[v]}
      ]_allVars

\* Vector a, which held a storage, has just been move-assigned from vector b
\* of two different elements.
MovedOverOwnStorage ==
    /\ fvResult.op = "move"
    /\ fvResult.v = "a" /\ fvResult.from = "b"
    /\ Len(fvResult.freed) = 1
    /\ Len(fvResult.before) = 2
    /\ fvResult.before[1] # fvResult.before[2]
    /\ Contents("a") = fvResult.before
    /\ m_storage["b"] = NULL

\* ------------------------------------- Callee objects and their code
\* WasmCallee.h:53-127, 150-266.  Every class passes its compilation mode to
\* the Callee constructor; a JIT callee takes its entrypoint and its range
\* from the Wasm::Entrypoint it was built with; an LLIntCallee is created
\* without an entrypoint and gets it from setEntrypoint.  The executable
\* allocator, LLIntCallee's constructor, setEntrypoint, entrypoint() and
\* range() are not part of the sources: the allocator gives a new callee a
\* range that overlaps no live callee's, and setEntrypoint sets the
\* entrypoint once (section 3 of the specification).

NumCalleeObjects == 2
CodeSpaceSize == 3

CalleeObjects == 1..NumCalleeObjects
\* The addresses of the code space; 0 is the null code pointer.
CodeAddresses == 1..CodeSpaceSize
\* Half-open ranges <<start, end>> of the code space.
CodeRanges ==
    {r \in CodeAddresses \X (2..(CodeSpaceSize + 1)) : r[1] < r[2]}
NoRange == <<0, 0>>

JITCalleeClasses ==
    {"BBQCallee", "OMGCallee", "OMGForOSREntryCallee",
     "EmbedderEntrypointCallee"}
CalleeClasses == JITCalleeClasses \cup {"LLIntCallee"}

\* The lists of unlinked wasm-to-wasm calls a backend hands over.
UnlinkedCalls == SeqsUpTo(Funcs, 1)

\* Every class with the mode of the Optimizing class (the constructors
\* passing on a mode they were given instead of their own).
CompilationModeOfOMG(class) ==
    IF class = "LLIntCallee" THEN "LLIntMode" ELSE "OMGMode"

\* The Wasm::CompilationMode each constructor passes to its base class.
CompilationModeOf(class) ==
    CASE class = "LLIntCallee" -> "LLIntMode"
      [] class = "BBQCallee" -> "BBQMode"
      [] class = "OMGCallee" -> "OMGMode"
      [] class = "OMGForOSREntryCallee" -> "OMGForOSREntryMode"
      [] class = "EmbedderEntrypointCallee" -> "EmbedderEntrypointMode"

\* No callee object exists.
COInit ==
    /\ calleeClass = [c \in CalleeObjects |-> "none"]
    /\ m_compilationMode = [c \in CalleeObjects |-> "none"]
    /\ m_entrypoint = [c \in CalleeObjects |-> NULL]
    /\ codeRange = [c \in CalleeObjects |-> NoRange]
    /\ m_wasmToWasmCallsites = [c \in CalleeObjects |-> <<>>]
    /\ observable = {}

LiveCallee(c) == calleeClass[c] # "none"

Overlap(r1, r2) == r1[1] < r2[2] /\ r2[1] < r1[2]

\* An allocator that hands out any range of the code space.
AnyRanges == CodeRanges

\* The ranges the allocator can hand out: those that overlap the range of
\* no live callee.
FreeRanges ==
    {r \in CodeRanges :
        \A d \in CalleeObjects : LiveCallee(d) => ~Overlap(r, codeRange[d])}

\* create() of one of the five classes.  The mode comes from the class; a
\* JIT callee gets the code pointer and the executable memory of its
\* Entrypoint and (but for the embedder entrypoint) the unlinked calls; an
\* LLInt callee gets no entrypoint.
Create(c, class, range, code, calls) ==
    /\ calleeClass[c] = "none"
    /\ range \in FreeRanges
    /\ IF class = "LLIntCallee"
       THEN /\ code = NULL /\ calls = <<>>
       ELSE /\ code \in range[1]..(range[2] - 1)
            /\ class = "EmbedderEntrypointCallee" => calls = <<>>
    /\ calleeClass' = [calleeClass EXCEPT ![c] = class]
    /\ m_compilationMode' =
          [m_compilationMode EXCEPT ![c] = CompilationModeOf(class)]
    /\ m_entrypoint' = [m_entrypoint EXCEPT ![c] = code]
    /\ codeRange' = [codeRange EXCEPT ![c] = range]
    /\ m_wasmToWasmCallsites' = [m_wasmToWasmCallsites EXCEPT ![c] = calls]
    /\ UNCHANGED observable
    /\ UNCHANGED outsideCalleeObjects

\* setEntrypoint that stores whatever it is given, every time.
setEntrypointEveryTime(c, ptr) ==
    /\ calleeClass[c] = "LLIntCallee"
    /\ ptr \in codeRange[c][1]..(codeRange[c][2] - 1)
    /\ m_entrypoint' = [m_entrypoint EXCEPT ![c] = ptr]
    /\ UNCHANGED <<calleeClass, m_compilationMode, codeRange,
                   m_wasmToWasmCallsites, observable>>
    /\ UNCHANGED outsideCalleeObjects

\* LLIntCallee::setEntrypoint(ptr): the entrypoint is set once; a call on a
\* callee that has its entrypoint changes nothing.
setEntrypoint(c, ptr) ==
    /\ calleeClass[c] = "LLIntCallee"
    /\ ptr \in codeRange[c][1]..(codeRange[c][2] - 1)
    /\ m_entrypoint' =
          IF m_entrypoint[c] = NULL
          THEN [m_entrypoint EXCEPT ![c] = ptr]
          ELSE m_entrypoint
    /\ UNCHANGED <<calleeClass, m_compilationMode, codeRange,
                   m_wasmToWasmCallsites, observable>>
    /\ UNCHANGED outsideCalleeObjects

\* The callee is stored into a replacement or OSR-entry slot, or (an LLInt
\* callee, its entrypoint set) into the callee group: other threads see it.
Install(c) ==
    /\ LiveCallee(c)
    /\ c \notin observable
    /\ calleeClass[c] = "LLIntCallee" => m_entrypoint[c] # NULL
    /\ observable' = observable \cup {c}
    /\ UNCHANGED <<calleeClass, m_compilationMode, m_entrypoint, codeRange,
                   m_wasmToWasmCallsites>>
    /\ UNCHANGED outsideCalleeObjects

\* A holder of the callee writes through the reference wasmToWasmCallsites()
\* returns (FixedVector<UnlinkedWasmToWasmCall>&, not const).
WriteWasmToWasmCallsites(c, calls) ==
    /\ calleeClass[c] \in JITCalleeClasses
    /\ calls # m_wasmToWasmCallsites[c]
    /\ m_wasmToWasmCallsites' = [m_wasmToWasmCallsites EXCEPT ![c] = calls]
    /\ UNCHANGED <<calleeClass, m_compilationMode, m_entrypoint, codeRange,
                   observable>>
    /\ UNCHANGED outsideCalleeObjects

\* ~Callee(): the last reference is gone, the code is freed.
DestroyCallee(c) ==
    /\ LiveCallee(c)
    /\ calleeClass' = [calleeClass EXCEPT ![c] = "none"]
    /\ m_compilationMode' = [m_compilationMode EXCEPT ![c] = "none"]
    /\ m_entrypoint' = [m_entrypoint EXCEPT ![c] = NULL]
    /\ codeRange' = [codeRange EXCEPT ![c] = NoRange]
    /\ m_wasmToWasmCallsites' = [m_wasmToWasmCallsites EXCEPT ![c] = <<>>]
    /\ observable' = observable \ {c}
    /\ UNCHANGED outsideCalleeObjects

CONext ==
    \/ \E c \in CalleeObjects, class \in CalleeClasses, range \in CodeRanges,
          code \in CodeAddresses \cup {NULL}, calls \in UnlinkedCalls :
          Create(c, class, range, code, calls)
    \/ \E c \in CalleeObjects, ptr \in CodeAddresses : setEntrypoint(c, ptr)
    \/ \E c \in CalleeObjects : Install(c)
    \/ \E c \in CalleeObjects, calls \in UnlinkedCalls :
          WriteWasmToWasmCallsites(c, calls)
    \/ \E c \in CalleeObjects : DestroyCallee(c)

\* The callee lives through the step.
Survives(c) == calleeClass[c] # "none" /\ calleeClass'[c] # "none"

\* C21: compilationMode() of a callee is the mode of the class that built
\* it and is the same in every state of the callee's life, installations
\* included.
TierFixedAtConstruction ==
    [][/\ \A c \in CalleeObjects :
            Survives(c) =>
                /\ m_compilationMode'[c] = m_compilationMode[c]
                /\ calleeClass'[c] = calleeClass[c]
       /\ \A c \in CalleeObjects :
            /\ calleeClass'[c] = "LLIntCallee" =>
                  m_compilationMode'[c] = "LLIntMode"
            /\ calleeClass'[c] = "BBQCallee" =>
                  m_compilationMode'[c] = "BBQMode"
            /\ calleeClass'[c] = "OMGCallee" =>
                  m_compilationMode'[c] = "OMGMode"
            /\ calleeClass'[c] = "OMGForOSREntryCallee" =>
                  m_compilationMode'[c] = "OMGForOSREntryMode"
            /\ calleeClass'[c] = "EmbedderEntrypointCallee" =>
                  m_compilationMode'[c] = "EmbedderEntrypointMode"
      ]_allVars

\* A Baseline callee and the Optimizing callee installed after it are both
\* visible, each with its own mode.
BaselineAndOptimizingInstalled ==
    \E c, d \in CalleeObjects :
        /\ {c, d} \subseteq observable
        /\ m_compilationMode[c] = "BBQMode"
        /\ m_compilationMode[d] = "OMGMode"

\* C22: for every constructed callee the code range is non-empty and
\* entrypoint() lies inside it, an LLInt callee before setEntrypoint
\* included.
EntrypointInsideCodeRange ==
    \A c \in CalleeObjects :
        LiveCallee(c) =>
            /\ codeRange[c][1] < codeRange[c][2]
            /\ codeRange[c][1] <= m_entrypoint[c]
            /\ m_entrypoint[c] < codeRange[c][2]

\* C23: a callee's code range is the same in every state of its life, and
\* the ranges of two live callees never overlap, so an address belongs to at
\* most one of them.
CodeRangesFixedAndDisjoint ==
    [][/\ \A c \in CalleeObjects : Survives(c) => codeRange'[c] = codeRange[c]
       /\ \A c, d \in CalleeObjects :
            c # d /\ calleeClass'[c] # "none" /\ calleeClass'[d] # "none" =>
                /\ ~Overlap(codeRange'[c], codeRange'[d])
                /\ \A a \in CodeAddresses :
                      ~(/\ codeRange'[c][1] <= a /\ a < codeRange'[c][2]
                        /\ codeRange'[d][1] <= a /\ a < codeRange'[d][2])
      ]_allVars

\* Two live callees fill the code space side by side.
TwoCalleesSideBySide ==
    \E c, d \in CalleeObjects :
        /\ LiveCallee(c) /\ LiveCallee(d)
        /\ codeRange[c][2] = codeRange[d][1]
        /\ codeRange[c][2] - codeRange[c][1] > 1

\* C24: once setEntrypoint has set the entrypoint of an LLInt callee,
\* entrypoint() returns that value in every later state of the callee; a
\* second setEntrypoint changes nothing.
EntrypointSetOnce ==
    [][\A c \in CalleeObjects :
          Survives(c) /\ m_entrypoint[c] # NULL =>
              m_entrypoint'[c] = m_entrypoint[c]
      ]_allVars

\* An installed LLInt callee whose entrypoint is not the first address of
\* its range: a later setEntrypoint with another address is possible.
LLIntEntrypointSet ==
    \E c \in CalleeObjects :
        /\ calleeClass[c] = "LLIntCallee"
        /\ c \in observable
        /\ m_entrypoint[c] > codeRange[c][1]

\* C25: no operation changes the entrypoint, the code range, the unlinked
\* call sites, the class or the mode of a callee that is visible to other
\* threads.
PublishedCalleeImmutable ==
    [][\A c \in observable :
          Survives(c) =>
              /\ m_entrypoint'[c] = m_entrypoint[c]
              /\ codeRange'[c] = codeRange[c]
              /\ m_wasmToWasmCallsites'[c] = m_wasmToWasmCallsites[c]
              /\ calleeClass'[c] = calleeClass[c]
              /\ m_compilationMode'[c] = m_compilationMode[c]
      ]_allVars

\* ------------------------------------------- ANGLE: the Vulkan buffer object
\* BufferVk.cpp: one buffer object, the operations the front end calls on it
\* and the GPU that uses its storage.  A method of BufferVk is an operator
\* from the object's fields (a record with the names of the members) to the
\* set of fields it may leave behind; an action is one front-end call.

MaxBufferSize == 4
NumByteValues == 2

\* The sizes and the byte values the front end passes.
BufferSizes == {0, MaxBufferSize - 1, MaxBufferSize}
ByteValues == 1..NumByteValues

\* A byte of freshly allocated storage that nothing has written.
Uninitialized == 0

\* The non-null pointer into the staging buffer.
StagingPtr == 1

\* The binding points a buffer is specified through.
BufferBindings == {"Array", "PixelUnpack"}

\* size bytes with the value d.
Fill(dataSize, d) == [i \in 1..dataSize |-> d]

\* bytes [from, to) of a storage.
Slice(bytes, from, to) == [i \in 1..(to - from) |-> bytes[from + i]]

\* memcpy(storage + offset, data, Len(data)), and a GPU copy of the same
\* region once it has executed.
WriteBytes(bytes, offset, data) ==
    [i \in 1..Len(bytes) |->
        IF offset < i /\ i <= offset + Len(data)
            THEN data[i - offset]
            ELSE bytes[i]]

\* A vk::BufferHelper: a storage of the given size that nothing has
\* written or used.
BufferHelper(external, hostVisible, dataSize) ==
    [isExternalBuffer |-> external,
     isHostVisible |-> hostVisible,
     use |-> "idle",
     bytes |-> Fill(dataSize, Uninitialized)]

\* The null mBuffer.
NoBuffer == [null |-> TRUE]

\* gl::BufferState of an unmapped buffer of the given size.
Unmapped(dataSize) ==
    [size |-> dataSize, mapped |-> FALSE, accessFlags |-> {},
     mapOffset |-> 0, mapLength |-> 0]

NoBVResult ==
    [op |-> "none", path |-> "none", waited |-> FALSE,
     data |-> <<>>, offset |-> 0,
     range |-> <<0, 0>>]

\* BufferVk::BufferVk.
BVInit ==
    /\ mBuffer = NoBuffer
    /\ mShadowBuffer = FALSE
    /\ mMapInvalidateRangeMappedPtr = NULL
    /\ mHasValidData = FALSE
    /\ mHasBeenReferencedByGPU = FALSE
    /\ mState = Unmapped(0)
    /\ bvResult = NoBVResult

\* The members of the buffer object.
this ==
    [mBuffer |-> mBuffer,
     mShadowBuffer |-> mShadowBuffer,
     mMapInvalidateRangeMappedPtr |-> mMapInvalidateRangeMappedPtr,
     mHasValidData |-> mHasValidData,
     mHasBeenReferencedByGPU |-> mHasBeenReferencedByGPU]

\* The members after a call.
Becomes(s) ==
    /\ mBuffer' = s.mBuffer
    /\ mShadowBuffer' = s.mShadowBuffer
    /\ mMapInvalidateRangeMappedPtr' = s.mMapInvalidateRangeMappedPtr
    /\ mHasValidData' = s.mHasValidData
    /\ mHasBeenReferencedByGPU' = s.mHasBeenReferencedByGPU

\* BufferVk::isCurrentlyInUse.
isCurrentlyInUse(s) ==
    s.mHasBeenReferencedByGPU /\ s.mBuffer.use # "idle"

\* BufferHelper::isCurrentlyInUseForWrite.
isCurrentlyInUseForWrite(helper) == helper.use = "write"

\* BufferVk::release: the storage and the shadow buffer go; the staging
\* pointer and the flags are not touched.
release(s) == [s EXCEPT !.mShadowBuffer = FALSE, !.mBuffer = NoBuffer]

\* BufferVk::acquireBufferHelper: a new range of the pool becomes the
\* storage.  The range may lie in a buffer of the pool that the GPU still
\* uses.
acquireBufferHelper(s, sizeInBytes, hostVisible) ==
    {[s EXCEPT
        !.mBuffer = [BufferHelper(FALSE, hostVisible, sizeInBytes)
                        EXCEPT !.use = use],
        !.mHasBeenReferencedByGPU = FALSE] :
     use \in IF s.mBuffer = NoBuffer THEN {"idle"} ELSE {"idle", s.mBuffer.use}}

\* BufferVk::initializeShadowBuffer.
initializeShadowBuffer(s, binding, shadowBuffersEnabled) ==
    IF shadowBuffersEnabled /\ binding = "PixelUnpack"
        THEN [s EXCEPT !.mShadowBuffer = TRUE]
        ELSE s

\* BufferVk::dataUpdated.
dataUpdated(s) == [s EXCEPT !.mHasValidData = TRUE]

\* BufferHelper::copyFromBuffer into the storage: a GPU write.
copyFromBuffer(s, offset, data) ==
    [s EXCEPT !.mBuffer.bytes = WriteBytes(@, offset, data),
              !.mBuffer.use = "write"]

\* BufferVk::directUpdate.
directUpdate(s, data, offset) ==
    [s EXCEPT !.mBuffer.bytes = WriteBytes(@, offset, data)]

\* BufferVk::flushMappedStagingBuffer.
flushMappedStagingBuffer(s, data, offset) ==
    [copyFromBuffer(s, offset, data) EXCEPT !.mHasBeenReferencedByGPU = TRUE]

\* BufferVk::stagedUpdate.
stagedUpdate(s, data, offset) == flushMappedStagingBuffer(s, data, offset)

\* BufferVk::updateBuffer.
updateBuffer(s, data, offset) ==
    IF s.mBuffer.isHostVisible
        THEN directUpdate(s, data, offset)
        ELSE stagedUpdate(s, data, offset)

\* acquireAndUpdate that copies only the region in front of the update.
acquireAndUpdateFrontOnly(s, bufferSize, data, offset) ==
    LET src == s.mBuffer
        updateRegionBeforeSubData == s.mHasValidData /\ offset > 0
    IN  {IF updateRegionBeforeSubData
            THEN [copyFromBuffer(updateBuffer(n, data, offset), 0,
                                 Slice(src.bytes, 0, offset))
                    EXCEPT !.mHasBeenReferencedByGPU = TRUE]
            ELSE updateBuffer(n, data, offset) :
         n \in acquireBufferHelper(s, bufferSize, src.isHostVisible)}

\* BufferVk::acquireAndUpdate: a new storage gets the data and, when the
\* buffer held valid data, the old bytes around it, by the CPU or by the
\* GPU.
acquireAndUpdate(s, bufferSize, data, offset) ==
    LET src == s.mBuffer
        offsetAfterSubdata == offset + Len(data)
        updateRegionBeforeSubData == s.mHasValidData /\ offset > 0
        updateRegionAfterSubData ==
            s.mHasValidData /\ offsetAfterSubdata < bufferSize
        useCPU ==
            IF /\ updateRegionBeforeSubData \/ updateRegionAfterSubData
               /\ src.isHostVisible
               /\ ~isCurrentlyInUseForWrite(src)
                THEN BOOLEAN
                ELSE {FALSE}
        front == Slice(src.bytes, 0, offset)
        back == Slice(src.bytes, offsetAfterSubdata, bufferSize)
        Front(n, cpu) ==
            IF updateRegionBeforeSubData /\ cpu
                THEN directUpdate(n, front, 0)
                ELSE n
        Back(n, cpu) ==
            IF updateRegionAfterSubData /\ cpu
                THEN directUpdate(n, back, offsetAfterSubdata)
                ELSE n
        FrontRegion(n) ==
            IF updateRegionBeforeSubData
                THEN copyFromBuffer(n, 0, front)
                ELSE n
        BackRegion(n) ==
            IF updateRegionAfterSubData
                THEN copyFromBuffer(n, offsetAfterSubdata, back)
                ELSE n
        Regions(n, cpu) ==
            IF ~cpu /\ (updateRegionBeforeSubData \/ updateRegionAfterSubData)
                THEN [BackRegion(FrontRegion(n))
                        EXCEPT !.mHasBeenReferencedByGPU = TRUE]
                ELSE n
    IN  {Regions(Back(Front(updateBuffer(n, data, offset), cpu), cpu), cpu) :
         n \in acquireBufferHelper(s, bufferSize, src.isHostVisible),
         cpu \in useCPU}

\* ShouldAllocateNewMemoryForUpdate.
ShouldAllocateNewMemoryForUpdate(preferCPU, subDataSize, bufferSize) ==
    preferCPU \/ subDataSize > bufferSize \div 2

\* setDataImpl that takes a new storage for an external buffer too.
setDataImplAnyBuffer(s, bufferSize, data, offset) ==
    IF isCurrentlyInUse(s)
        THEN {[s |-> dataUpdated(n), path |-> "acquireAndUpdate"] :
              n \in acquireAndUpdate(s, bufferSize, data, offset)}
        ELSE {[s |-> dataUpdated(updateBuffer(s, data, offset)),
               path |-> "updateBuffer"]}

\* BufferVk::setDataImpl, with the branch it took.
setDataImpl(s, bufferSize, data, offset) ==
    IF isCurrentlyInUse(s)
        THEN UNION
            {IF /\ ~s.mBuffer.isExternalBuffer
                /\ \/ ~s.mHasValidData
                   \/ ShouldAllocateNewMemoryForUpdate(prefer, Len(data),
                                                       bufferSize)
                THEN {[s |-> dataUpdated(n), path |-> "acquireAndUpdate"] :
                      n \in acquireAndUpdate(s, bufferSize, data, offset)}
                ELSE {[s |-> dataUpdated(stagedUpdate(s, data, offset)),
                       path |-> "stagedUpdate"]} :
             prefer \in BOOLEAN}
        ELSE {[s |-> dataUpdated(updateBuffer(s, data, offset)),
               path |-> "updateBuffer"]}

\* BufferVk::setDataWithMemoryType, called by setData.  mState still holds
\* the size of the previous specification.
setDataWithMemoryType(s, binding, data, dataSize, hostVisible, shadows) ==
    LET reset == [s EXCEPT !.mHasValidData = FALSE]
        wholeSize == dataSize = mState.size
        storage ==
            IF wholeSize
                THEN {reset}
                ELSE {initializeShadowBuffer(n, binding, shadows) :
                      n \in acquireBufferHelper(release(reset), dataSize,
                                                hostVisible)}
    IN  IF dataSize = 0
            THEN {[s |-> reset, path |-> "nothing"]}
            ELSE IF data # <<>>
                THEN UNION {setDataImpl(n, mState.size, data, 0) :
                            n \in storage}
                ELSE {[s |-> n, path |-> "storage"] : n \in storage}

\* BufferVk::handleDeviceLocalBufferMap: the storage is copied into a host
\* visible buffer and the caller waits for the copy.
handleDeviceLocalBufferMap(s) ==
    [s |-> [s EXCEPT !.mBuffer.use = "idle"],
     path |-> "deviceLocal", waited |-> TRUE]

\* BufferHelper::mapWithOffset of the current storage.
mapWithOffset(s, waited) == [s |-> s, path |-> "direct", waited |-> waited]

\* bool entireBufferInvalidated in mapRangeImpl.
entireBufferInvalidated(access, offset, length, bufferSize) ==
    \/ "INVALIDATE_BUFFER" \in access
    \/ /\ "INVALIDATE_RANGE" \in access
       /\ offset = 0
       /\ bufferSize = length

\* smallMapRange with the half rounded up.
smallMapRangeRoundedUp(length, bufferSize) ==
    length < (bufferSize + 1) \div 2

\* bool smallMapRange in mapRangeImpl.
smallMapRange(length, bufferSize) == length < bufferSize \div 2

\* BufferVk::ghostMappedBuffer: a new storage with the old bytes, except
\* those of an invalidated range.
ghostMappedBuffer(s, bufferSize, offset, length, access) ==
    LET previousBuffer == s.mBuffer
        remainingStart == offset + length
    IN  {[s |-> [n EXCEPT !.mBuffer.bytes =
                    IF "INVALIDATE_RANGE" \in access
                        THEN WriteBytes(
                                 WriteBytes(@, 0,
                                     Slice(previousBuffer.bytes, 0, offset)),
                                 remainingStart,
                                 Slice(previousBuffer.bytes, remainingStart,
                                       bufferSize))
                        ELSE WriteBytes(@, 0,
                                 Slice(previousBuffer.bytes, 0, bufferSize))],
          path |-> "ghost", waited |-> FALSE] :
         n \in acquireBufferHelper(s, bufferSize,
                                   previousBuffer.isHostVisible)}

\* BufferVk::mapRangeImpl, with the branch it took and whether the caller
\* had to wait for the GPU.
mapRangeImpl(s, bufferSize, offset, length, access) ==
    LET hostVisible == s.mBuffer.isHostVisible
        rangeInvalidate == "INVALIDATE_RANGE" \in access
    IN  IF s.mShadowBuffer
            THEN {[s |-> s, path |-> "shadow", waited |-> FALSE]}
        ELSE IF "UNSYNCHRONIZED" \in access
            THEN IF hostVisible
                    THEN {mapWithOffset(s, FALSE)}
                    ELSE {handleDeviceLocalBufferMap(s)}
        ELSE IF "WRITE" \notin access
            THEN LET finished ==
                        IF isCurrentlyInUseForWrite(s.mBuffer)
                            THEN {[s EXCEPT !.mBuffer.use = use] :
                                  use \in {"idle", "read"}}
                            ELSE {s}
                     waited == isCurrentlyInUseForWrite(s.mBuffer)
                 IN  IF hostVisible
                        THEN {mapWithOffset(n, waited) : n \in finished}
                        ELSE {handleDeviceLocalBufferMap(n) : n \in finished}
        ELSE IF ~hostVisible
            THEN {handleDeviceLocalBufferMap(s)}
        ELSE IF s.mBuffer.isExternalBuffer \/ ~isCurrentlyInUse(s)
            THEN {mapWithOffset(s, FALSE)}
        ELSE IF entireBufferInvalidated(access, offset, length, bufferSize)
            THEN {[s |-> n, path |-> "acquire", waited |-> FALSE] :
                  n \in acquireBufferHelper(s, bufferSize, hostVisible)}
        ELSE IF smallMapRange(length, bufferSize) /\ rangeInvalidate
            THEN {[s |-> [s EXCEPT !.mMapInvalidateRangeMappedPtr =
                                        StagingPtr],
                   path |-> "staging", waited |-> FALSE]}
        ELSE IF ~isCurrentlyInUseForWrite(s.mBuffer)
            THEN ghostMappedBuffer(s, bufferSize, offset, length, access)
        ELSE {mapWithOffset([s EXCEPT !.mBuffer.use = "idle"], TRUE)}

\* unmapImpl that marks the data valid after a read-only mapping too.
unmapImplAlwaysUpdated(s, state, d) ==
    LET written == Fill(state.mapLength, d)
        offset == state.mapOffset
    IN  dataUpdated(
            IF s.mMapInvalidateRangeMappedPtr # NULL
                THEN [flushMappedStagingBuffer(s, written, offset)
                        EXCEPT !.mMapInvalidateRangeMappedPtr = NULL]
            ELSE IF "WRITE" \in state.accessFlags
                THEN directUpdate(s, written, offset)
            ELSE s)

\* BufferVk::unmapImpl; d is the byte the caller wrote through the mapped
\* pointer.
unmapImpl(s, state, d) ==
    LET writeOperation == "WRITE" \in state.accessFlags
        written == Fill(state.mapLength, d)
        offset == state.mapOffset
        unmapped ==
            IF s.mMapInvalidateRangeMappedPtr # NULL
                THEN [flushMappedStagingBuffer(s, written, offset)
                        EXCEPT !.mMapInvalidateRangeMappedPtr = NULL]
            ELSE IF ~s.mShadowBuffer /\ s.mBuffer.isHostVisible
                THEN IF writeOperation
                        THEN directUpdate(s, written, offset)
                        ELSE s
            ELSE IF writeOperation
                THEN IF s.mShadowBuffer
                        THEN stagedUpdate(s, written, offset)
                        ELSE flushMappedStagingBuffer(s, written, offset)
            ELSE s
    IN  IF writeOperation THEN dataUpdated(unmapped) ELSE unmapped

\* GetPreferredMemoryType: every memory type it returns is host visible.
GetPreferredMemoryType == [isHostVisible |-> TRUE]

\* BufferVk::setData (glBufferData); the front end records the new size.
SetData(binding, data, dataSize, shadowBuffersEnabled) ==
    /\ \E r \in setDataWithMemoryType(this, binding, data, dataSize,
                                      GetPreferredMemoryType.isHostVisible,
                                      shadowBuffersEnabled) :
        /\ Becomes(r.s)
        /\ bvResult' = [op |-> "setData", path |-> r.path, waited |-> FALSE,
                        data |-> data, offset |-> 0,
                        range |-> <<0, 0>>]
    /\ mState' = [mState EXCEPT !.size = dataSize]
    /\ UNCHANGED outsideBufferVk

\* BufferVk::setExternalBufferData, from setDataWithUsageFlags with a
\* client buffer.
SetExternalBufferData(dataSize, hostVisible) ==
    /\ Becomes([release(this) EXCEPT
                    !.mBuffer = BufferHelper(TRUE, hostVisible, dataSize)])
    /\ bvResult' = [NoBVResult EXCEPT !.op = "setExternalBufferData"]
    /\ mState' = [mState EXCEPT !.size = dataSize]
    /\ UNCHANGED outsideBufferVk

\* BufferVk::setSubData.
SetSubData(data, offset) ==
    /\ mBuffer # NoBuffer
    /\ offset + Len(data) <= mState.size
    /\ \E r \in setDataImpl(this, mState.size, data, offset) :
        /\ Becomes(r.s)
        /\ bvResult' = [op |-> "setSubData", path |-> r.path,
                        waited |-> FALSE, data |-> data, offset |-> offset,
                        range |-> <<0, 0>>]
    /\ UNCHANGED <<mState, outsideBufferVk>>

\* BufferVk::copySubData into this buffer from another buffer that holds
\* data: a GPU copy.
CopySubData(data, destOffset) ==
    /\ mBuffer # NoBuffer
    /\ destOffset + Len(data) <= mState.size
    /\ Becomes(dataUpdated(
           [copyFromBuffer(this, destOffset, data)
                EXCEPT !.mHasBeenReferencedByGPU = TRUE]))
    /\ bvResult' = [NoBVResult EXCEPT !.op = "copySubData"]
    /\ UNCHANGED <<mState, outsideBufferVk>>

\* BufferVk::copySubData of another buffer with this buffer as the source:
\* the destination maps and unmaps this buffer when it has a shadow buffer,
\* and the GPU then reads this buffer.  getBufferAndOffset, which hands the
\* storage to the GPU command, is not defined in this file.
CopySubDataSource(sourceOffset, dataSize, destinationHasShadow, d) ==
    /\ mBuffer # NoBuffer
    /\ dataSize >= 1
    /\ sourceOffset + dataSize <= mState.size
    /\ \E r \in IF destinationHasShadow
                    THEN mapRangeImpl(this, mState.size, sourceOffset, dataSize,
                                      {"READ"})
                    ELSE {[s |-> this, path |-> "none", waited |-> FALSE]},
          referenced \in {mHasBeenReferencedByGPU, TRUE} :
        LET after == IF destinationHasShadow
                        THEN unmapImpl(r.s, mState, d)
                        ELSE r.s
        IN  /\ Becomes([after EXCEPT
                          !.mBuffer.use = IF @ = "write" THEN "write"
                                                         ELSE "read",
                          !.mHasBeenReferencedByGPU = referenced \/ @])
            /\ bvResult' = [op |-> "copySubDataSource", path |-> r.path,
                            waited |-> r.waited, data |-> <<>>, offset |-> 0,
                            range |-> IF destinationHasShadow
                                        THEN <<sourceOffset, dataSize>>
                                        ELSE <<0, 0>>]
    /\ UNCHANGED <<mState, outsideBufferVk>>

\* BufferVk::mapRange; the front end records the mapping.
MapRange(offset, length, access) ==
    /\ ~mState.mapped
    /\ mShadowBuffer \/ mBuffer # NoBuffer
    /\ length >= 1
    /\ offset + length <= mState.size
    /\ \E r \in mapRangeImpl(this, mState.size, offset, length, access) :
        /\ Becomes(r.s)
        /\ bvResult' = [op |-> "mapRange", path |-> r.path,
                        waited |-> r.waited, data |-> <<>>, offset |-> 0,
                        range |-> <<offset, length>>]
    /\ mState' = [mState EXCEPT !.mapped = TRUE, !.accessFlags = access,
                                !.mapOffset = offset, !.mapLength = length]
    /\ UNCHANGED outsideBufferVk

\* BufferVk::map, through mapImpl: the whole buffer for writing.
Map == MapRange(0, mState.size, {"WRITE"})

\* BufferVk::unmap; the front end forgets the mapping.
Unmap(d) ==
    /\ mState.mapped
    /\ mBuffer # NoBuffer
    /\ Becomes(unmapImpl(this, mState, d))
    /\ bvResult' = [NoBVResult EXCEPT !.op = "unmap"]
    /\ mState' = Unmapped(mState.size)
    /\ UNCHANGED outsideBufferVk

\* BufferVk::getSubData.
GetSubData(offset, dataSize, d) ==
    /\ mShadowBuffer \/ mBuffer # NoBuffer
    /\ dataSize >= 1
    /\ offset + dataSize <= mState.size
    /\ IF ~mShadowBuffer
        THEN \E r \in mapRangeImpl(this, mState.size, offset, dataSize,
                                   {"READ"}) :
                /\ Becomes(unmapImpl(r.s, mState, d))
                /\ bvResult' = [op |-> "getSubData", path |-> r.path,
                                waited |-> r.waited, data |-> <<>>, offset |-> 0,
                                range |-> <<offset, dataSize>>]
        ELSE /\ Becomes(this)
             /\ bvResult' = [op |-> "getSubData", path |-> "shadow",
                             waited |-> FALSE, data |-> <<>>, offset |-> 0,
                             range |-> <<0, 0>>]
    /\ UNCHANGED <<mState, outsideBufferVk>>

\* BufferVk::getIndexRange.
GetIndexRange(offset, isMockICDEnabled, d) ==
    /\ mBuffer # NoBuffer
    /\ offset < mState.size
    /\ IF isMockICDEnabled
        THEN /\ Becomes(this)
             /\ bvResult' = [op |-> "getIndexRange", path |-> "none",
                             waited |-> FALSE, data |-> <<>>, offset |-> 0,
                             range |-> <<0, 0>>]
        ELSE \E r \in mapRangeImpl(this, mState.size, offset, mState.size,
                                   {"READ"}) :
                /\ Becomes(unmapImpl(r.s, mState, d))
                /\ bvResult' = [op |-> "getIndexRange", path |-> r.path,
                                waited |-> r.waited, data |-> <<>>, offset |-> 0,
                                range |-> <<offset, mState.size>>]
    /\ UNCHANGED <<mState, outsideBufferVk>>

\* The command queue completes the commands that use the storage.
QueueSerialCompleted ==
    /\ mBuffer # NoBuffer
    /\ mBuffer.use # "idle"
    /\ mBuffer' = [mBuffer EXCEPT !.use = "idle"]
    /\ UNCHANGED <<mShadowBuffer, mMapInvalidateRangeMappedPtr,
                   mHasValidData, mHasBeenReferencedByGPU, mState, bvResult,
                   outsideBufferVk>>

\* The byte value of the calls whose data is of no interest.
AnyByte == NumByteValues

\* The access bits of the mappings the front end asks for.
MappingAccesses ==
    {{"READ"}, {"WRITE"}, {"WRITE", "UNSYNCHRONIZED"},
     {"WRITE", "INVALIDATE_RANGE"}, {"WRITE", "INVALIDATE_BUFFER"},
     {"WRITE", "INVALIDATE_RANGE", "INVALIDATE_BUFFER"}}

\* The lengths of the ranges the front end maps and writes: short ones and
\* the whole buffer.
RangeLengths == {1, MaxBufferSize \div 2, mState.size}

\* The calls of the front end in any order, and the command queue.
BVNext ==
    \/ \E binding \in BufferBindings, dataSize \in BufferSizes,
          hasData \in BOOLEAN :
          SetData(binding,
                  IF hasData THEN Fill(dataSize, AnyByte) ELSE <<>>,
                  dataSize, TRUE)
    \/ \E dataSize \in BufferSizes \ {0}, hostVisible \in BOOLEAN :
          SetExternalBufferData(dataSize, hostVisible)
    \/ \E dataSize \in RangeLengths :
          SetSubData(Fill(dataSize, AnyByte), 0)
    \/ \E dataSize \in RangeLengths :
          CopySubData(Fill(dataSize, AnyByte), 0)
    \/ \E destinationHasShadow \in BOOLEAN :
          CopySubDataSource(0, 1, destinationHasShadow, AnyByte)
    \/ \E offset \in 0..1, length \in RangeLengths,
          access \in MappingAccesses :
          MapRange(offset, length, access)
    \/ Map
    \/ Unmap(AnyByte)
    \/ \E offset \in 0..1 : GetSubData(offset, 1, AnyByte)
    \/ \E offset \in 0..1, isMockICDEnabled \in BOOLEAN :
          GetIndexRange(offset, isMockICDEnabled, AnyByte)
    \/ QueueSerialCompleted

\* The calls that write data, with every byte value, on a buffer the GPU
\* uses.
BVDataNext ==
    \/ \E binding \in BufferBindings, dataSize \in BufferSizes,
          d \in ByteValues \cup {Uninitialized} :
          SetData(binding,
                  IF d = Uninitialized THEN <<>> ELSE Fill(dataSize, d),
                  dataSize, FALSE)
    \/ \E offset \in 0..MaxBufferSize, dataSize \in 1..MaxBufferSize,
          d \in ByteValues :
          SetSubData(Fill(dataSize, d), offset)
    \/ \E offset \in 0..MaxBufferSize, dataSize \in 1..MaxBufferSize,
          d \in ByteValues :
          CopySubData(Fill(dataSize, d), offset)
    \/ \E offset \in 0..MaxBufferSize, dataSize \in 1..MaxBufferSize :
          CopySubDataSource(offset, dataSize, FALSE, AnyByte)
    \/ QueueSerialCompleted


\* A step that is a synchronized write mapping of a host-visible,
\* non-external buffer without shadow buffer.
SynchronizedWriteMapping ==
    /\ ~mState.mapped /\ mState'.mapped
    /\ "WRITE" \in mState'.accessFlags
    /\ "UNSYNCHRONIZED" \notin mState'.accessFlags
    /\ ~mShadowBuffer
    /\ mBuffer # NoBuffer
    /\ mBuffer.isHostVisible
    /\ ~mBuffer.isExternalBuffer

\* The mapping of this step invalidates the whole buffer.
WholeBufferInvalidated ==
    \/ "INVALIDATE_BUFFER" \in mState'.accessFlags
    \/ /\ "INVALIDATE_RANGE" \in mState'.accessFlags
       /\ mState'.mapOffset = 0
       /\ mState'.mapLength = mState.size

\* C28 as stated: such a mapping waits only when the GPU writes the buffer
\* and the caller invalidated neither the whole buffer nor a range shorter
\* than half of it; it acquires a new storage when the whole buffer is
\* invalidated, returns a staging pointer for a short invalidated range,
\* and switches to a copy when the GPU only reads the buffer.
SynchronizedWriteMapAvoidsWait ==
    [][SynchronizedWriteMapping =>
        LET shortRange ==
                /\ "INVALIDATE_RANGE" \in mState'.accessFlags
                /\ 2 * mState'.mapLength < mState.size
        IN  /\ bvResult'.waited =>
                /\ mBuffer.use = "write"
                /\ ~WholeBufferInvalidated
                /\ ~shortRange
            /\ WholeBufferInvalidated => bvResult'.path = "acquire"
            /\ shortRange /\ ~WholeBufferInvalidated =>
                bvResult'.path = "staging"
            /\ (mBuffer.use = "read" /\ ~WholeBufferInvalidated
                    /\ ~shortRange) =>
                bvResult'.path = "ghost"
      ]_allVars

\* C28, amended: such a mapping of a buffer the GPU does not use maps the
\* storage as it is.  When the GPU uses the buffer, the mapping acquires a
\* new storage if the whole buffer is invalidated; else returns a staging
\* pointer if a range shorter than half the size, rounded down, is
\* invalidated; else switches to a new storage with the old bytes outside
\* an invalidated range if the GPU only reads; and only else waits.
SynchronizedWriteMapWaitsLast ==
    [][SynchronizedWriteMapping =>
        LET inUse == mHasBeenReferencedByGPU /\ mBuffer.use # "idle"
            offset == mState'.mapOffset
            length == mState'.mapLength
            rangeInvalidate == "INVALIDATE_RANGE" \in mState'.accessFlags
            shortRange == rangeInvalidate /\ length < mState.size \div 2
            newStorage == ~mHasBeenReferencedByGPU'
            Kept(i) == mBuffer'.bytes[i] = mBuffer.bytes[i]
        IN  IF ~inUse THEN
                /\ bvResult'.path = "direct" /\ ~bvResult'.waited
                /\ this' = this
            ELSE IF WholeBufferInvalidated THEN
                /\ bvResult'.path = "acquire" /\ ~bvResult'.waited
                /\ newStorage
                /\ \A i \in 1..mState.size :
                      mBuffer'.bytes[i] = Uninitialized
                /\ mMapInvalidateRangeMappedPtr' = NULL
            ELSE IF shortRange THEN
                /\ bvResult'.path = "staging" /\ ~bvResult'.waited
                /\ mMapInvalidateRangeMappedPtr' = StagingPtr
                /\ mBuffer' = mBuffer
            ELSE IF mBuffer.use = "read" THEN
                /\ bvResult'.path = "ghost" /\ ~bvResult'.waited
                /\ newStorage
                /\ \A i \in 1..mState.size :
                      IF rangeInvalidate /\ offset < i /\ i <= offset + length
                          THEN mBuffer'.bytes[i] = Uninitialized
                          ELSE Kept(i)
            ELSE
                /\ bvResult'.path = "direct" /\ bvResult'.waited
                /\ mBuffer'.bytes = mBuffer.bytes
                /\ mBuffer'.use = "idle"
      ]_allVars

\* The buffer is mapped for writing after a wait, although the caller
\* invalidated a range of less than half its size: the size is odd.
WaitedOnRangeBelowHalf ==
    /\ bvResult.op = "mapRange"
    /\ bvResult.path = "direct" /\ bvResult.waited
    /\ mState.mapped
    /\ mState.accessFlags = {"WRITE", "INVALIDATE_RANGE"}
    /\ 2 * mState.mapLength < mState.size
    /\ mShadowBuffer = FALSE
    /\ mBuffer.isHostVisible /\ ~mBuffer.isExternalBuffer

\* C29: acquireAndUpdate on a buffer of size S leaves a storage that holds
\* the data in [offset, offset + updateSize) and, when the buffer held
\* valid data, the bytes of the old storage everywhere else; when it held
\* none, nothing of the old storage.
AcquireAndUpdateKeepsTheRest ==
    [][bvResult'.path = "acquireAndUpdate" /\ ~QueueSerialCompleted =>
        LET data == bvResult'.data
            offset == bvResult'.offset
            hadValidData == bvResult'.op = "setSubData" /\ mHasValidData
        IN  /\ offset + Len(data) <= mState.size
            /\ \A i \in 1..mState.size :
                  mBuffer'.bytes[i] =
                      IF offset < i /\ i <= offset + Len(data)
                          THEN data[i - offset]
                      ELSE IF hadValidData
                          THEN mBuffer.bytes[i]
                      ELSE Uninitialized
      ]_allVars

\* A setSubData in the middle of a buffer took a new storage: bytes of the
\* old storage lie on both sides of the data and differ from it.
UpdatedInTheMiddle ==
    /\ bvResult.op = "setSubData"
    /\ bvResult.path = "acquireAndUpdate"
    /\ bvResult.offset > 0
    /\ bvResult.offset + Len(bvResult.data) < mState.size
    /\ mBuffer.bytes[1] \in ByteValues \ {bvResult.data[1]}
    /\ mBuffer.bytes[mState.size] \in ByteValues \ {bvResult.data[1]}

Redefinition ==
    /\ ~QueueSerialCompleted
    /\ \/ bvResult'.op = "setExternalBufferData"
       \/ /\ bvResult'.op = "setData"
          /\ mState'.size # mState.size
          /\ mState'.size # 0

\* C31: no call replaces the storage of an external buffer by a storage
\* of the pool (acquireBufferHelper is not reached with an external
\* mBuffer), unless it releases the buffer and specifies it anew.
ExternalStorageNeverReplaced ==
    [][(mBuffer # NoBuffer /\ mBuffer.isExternalBuffer /\ ~Redefinition) =>
          /\ mBuffer' # NoBuffer
          /\ mBuffer'.isExternalBuffer
          /\ mBuffer'.isHostVisible = mBuffer.isHostVisible
          /\ Len(mBuffer'.bytes) = Len(mBuffer.bytes)
          /\ mHasBeenReferencedByGPU => mHasBeenReferencedByGPU'
      ]_allVars

\* An external, host-visible buffer that the GPU uses has been mapped for
\* writing with the whole buffer invalidated.
ExternalBufferMappedInvalidated ==
    /\ bvResult.op = "mapRange"
    /\ mState.mapped
    /\ "INVALIDATE_BUFFER" \in mState.accessFlags
    /\ mBuffer.isExternalBuffer
    /\ mBuffer.isHostVisible
    /\ mHasBeenReferencedByGPU
    /\ mBuffer.use # "idle"

\* C32: mHasValidData tells whether the buffer received contents since it
\* was last specified: a step that specifies the buffer anew leaves it true
\* only if it uploads data, it turns true only in a data upload, an unmap or
\* a copy into the buffer, and it turns false only in setData.
ValidDataExactlyAfterContents ==
    [][/\ Redefinition =>
            (mHasValidData' <=>
                (bvResult'.op = "setData" /\ bvResult'.data # <<>>))
       /\ (mHasValidData' /\ ~mHasValidData) =>
            bvResult'.op \in {"setData", "setSubData", "unmap", "copySubData"}
       /\ (~mHasValidData' /\ mHasValidData) => bvResult'.op = "setData"
      ]_allVars

\* C32, amended: setData leaves mHasValidData true exactly if it uploads
\* data; setSubData and copySubData leave it true; every unmapImpl that
\* runs while the recorded access flags hold the write bit sets it, in
\* unmap and in getSubData, getIndexRange and a copy from this buffer; no
\* other step changes it, nor does setExternalBufferData.
ValidDataFollowsUploads ==
    [][~QueueSerialCompleted =>
        LET op == bvResult'.op
            writeOperation == "WRITE" \in mState.accessFlags
            unmapImplRan ==
                IF op = "getSubData"
                    THEN ~mShadowBuffer
                    ELSE bvResult'.path # "none"
        IN  IF op = "setData" THEN
                mHasValidData' =
                    (bvResult'.data # <<>> /\ mState'.size # 0)
            ELSE IF op \in {"setSubData", "copySubData"} THEN
                mHasValidData'
            ELSE IF op = "unmap" THEN
                mHasValidData' = (mHasValidData \/ writeOperation)
            ELSE IF op \in {"getSubData", "getIndexRange",
                            "copySubDataSource"} THEN
                mHasValidData' =
                    (mHasValidData \/ (unmapImplRan /\ writeOperation))
            ELSE mHasValidData' = mHasValidData
      ]_allVars

\* A buffer specified without data has been mapped and unmapped, and holds
\* no valid data: the mapping was read-only.
UnmappedWithoutValidData ==
    /\ bvResult.op = "unmap"
    /\ ~mHasValidData
    /\ mBuffer # NoBuffer
    /\ mState.size > 0

\* C33: the range an operation has passed to mapRangeImpl lies inside the
\* buffer: its offset plus its length is at most the size.
MappedRangeInsideBuffer ==
    bvResult.range[1] + bvResult.range[2] <= mState.size

\* ------------------------------------------- WebKit: the remote video track
\* VideoTrackPrivateRemote.cpp.  The object is the record of its members; the
\* member functions are operators from that record to the record after the
\* call.  `sent` are the messages sent on the GPU-process connection and
\* `notified` the client callbacks made by the call in progress.

MaxMessages == 3
NumFieldValues == 2

\* Track ids; labels and languages ("" is the empty string).
TrackStrings == {"", "a", "b"}
LabelStrings == {"", "a"}

\* The members updateConfiguration copies without comparing them.
FieldNames == {"trackIndex", "startTimeVariance", "videoKind", "codec", "width", "height", "colorSpace", "framerate", "bitrate"}

\* TrackPrivateRemoteConfiguration values.
Configurations == {[trackId |-> i, label |-> l, language |-> g, selected |-> s, fields |-> [f \in FieldNames |-> v]] : i \in TrackStrings, l \in LabelStrings, g \in LabelStrings, s \in BOOLEAN, v \in 1..NumFieldValues}

NoConfiguration == [trackId |-> "", label |-> "", language |-> "", selected |-> FALSE, fields |-> [f \in FieldNames |-> 0]]

\* m_idendifier, fixed by the constructor.
m_idendifier == 1

NoVTResult == [op |-> "none", selected |-> FALSE, configuration |-> NoConfiguration, notified |-> <<>>]

VTInit ==
    /\ m_gpuProcessConnection = TRUE
    /\ m_id = ""
    /\ m_label = ""
    /\ m_language = ""
    /\ m_selected = FALSE
    /\ vtFields = NoConfiguration.fields
    /\ vtClient = FALSE
    /\ vtConstructed = FALSE
    /\ vtSent = <<>>
    /\ vtResult = NoVTResult

\* The object at the start of a call.
vtThis == [connection |-> m_gpuProcessConnection, m_id |-> m_id, m_label |-> m_label, m_language |-> m_language, m_selected |-> m_selected, fields |-> vtFields, client |-> vtClient, sent |-> vtSent, notified |-> <<>>]

\* VideoTrackPrivate::setSelected of the base class: stores the value and
\* tells the client when it changed.
VideoTrackPrivateSetSelected(s, selected) ==
    IF s.m_selected = selected
    THEN s
    ELSE [s EXCEPT !.m_selected = selected,
                   !.notified = IF s.client
                                THEN Append(@, [callback |-> "selectedChanged", value |-> selected])
                                ELSE @]

VideoTrackSetSelected(selected) == [name |-> "VideoTrackSetSelected", id |-> m_idendifier, selected |-> selected]

setSelectedAlwaysSends(s, selected) ==
    IF ~s.connection
    THEN s
    ELSE VideoTrackPrivateSetSelected([s EXCEPT !.sent = Append(@, VideoTrackSetSelected(selected))], selected)

\* VideoTrackPrivateRemote::setSelected.
setSelected(s, selected) ==
    IF ~s.connection
    THEN s
    ELSE VideoTrackPrivateSetSelected([s EXCEPT !.sent = IF selected # s.m_selected
                                                          THEN Append(@, VideoTrackSetSelected(selected))
                                                          ELSE @], selected)

\* One of the three compared members of updateConfiguration: the member is
\* replaced when the new value differs, and the client is told when the old
\* value was not empty.
updateString(s, member, callback, value, changedWhenEmpty) ==
    IF value # s[member]
    THEN LET changed == changedWhenEmpty \/ s[member] # ""
         IN  [s EXCEPT ![member] = value,
                       !.notified = IF changed /\ s.client
                                    THEN Append(@, [callback |-> callback, value |-> value])
                                    ELSE @]
    ELSE s

updateConfigurationWith(s, configuration, changedWhenEmpty) ==
    LET s1 == updateString(s, "m_id", "idChanged", configuration.trackId, changedWhenEmpty)
        s2 == updateString(s1, "m_label", "labelChanged", configuration.label, changedWhenEmpty)
        s3 == updateString(s2, "m_language", "languageChanged", configuration.language, changedWhenEmpty)
        s4 == [s3 EXCEPT !.fields = configuration.fields]
    IN  VideoTrackPrivateSetSelected(s4, configuration.selected)

updateConfigurationNotifiesFirst(s, configuration) == updateConfigurationWith(s, configuration, TRUE)

\* VideoTrackPrivateRemote::updateConfiguration.
updateConfiguration(s, configuration) == updateConfigurationWith(s, configuration, FALSE)

\* The members after a call.
VTBecomes(s) ==
    /\ m_id' = s.m_id
    /\ m_label' = s.m_label
    /\ m_language' = s.m_language
    /\ m_selected' = s.m_selected
    /\ vtFields' = s.fields
    /\ vtSent' = s.sent

\* VideoTrackPrivateRemote::VideoTrackPrivateRemote.
VTConstruct(configuration) ==
    /\ ~vtConstructed
    /\ LET s == updateConfiguration(vtThis, configuration)
       IN  /\ VTBecomes(s)
           /\ vtResult' = [NoVTResult EXCEPT !.op = "construct", !.configuration = configuration, !.notified = s.notified]
    /\ vtConstructed' = TRUE
    /\ UNCHANGED <<m_gpuProcessConnection, vtClient>>
    /\ UNCHANGED outsideVideoTrack

\* The owner of the track sets or clears its client.
VTSetClient(present) ==
    /\ vtConstructed
    /\ vtClient' = present
    /\ vtResult' = [NoVTResult EXCEPT !.op = "setClient"]
    /\ UNCHANGED <<m_gpuProcessConnection, m_id, m_label, m_language, m_selected, vtFields, vtConstructed, vtSent>>
    /\ UNCHANGED outsideVideoTrack

\* The GPU-process connection goes away: the WeakPtr becomes null.
VTConnectionDestroyed ==
    /\ vtConstructed
    /\ m_gpuProcessConnection
    /\ m_gpuProcessConnection' = FALSE
    /\ vtResult' = [NoVTResult EXCEPT !.op = "connectionDestroyed"]
    /\ UNCHANGED <<m_id, m_label, m_language, m_selected, vtFields, vtClient, vtConstructed, vtSent>>
    /\ UNCHANGED outsideVideoTrack

VTSetSelected(selected) ==
    /\ vtConstructed
    /\ Len(vtSent) < MaxMessages
    /\ LET s == setSelected(vtThis, selected)
       IN  /\ VTBecomes(s)
           /\ vtResult' = [NoVTResult EXCEPT !.op = "setSelected", !.selected = selected, !.notified = s.notified]
    /\ UNCHANGED <<m_gpuProcessConnection, vtClient, vtConstructed>>
    /\ UNCHANGED outsideVideoTrack

VTUpdateConfiguration(configuration) ==
    /\ vtConstructed
    /\ LET s == updateConfiguration(vtThis, configuration)
       IN  /\ VTBecomes(s)
           /\ vtResult' = [NoVTResult EXCEPT !.op = "updateConfiguration", !.configuration = configuration, !.notified = s.notified]
    /\ UNCHANGED <<m_gpuProcessConnection, vtClient, vtConstructed>>
    /\ UNCHANGED outsideVideoTrack

VTNext ==
    \/ \E configuration \in Configurations : VTConstruct(configuration)
    \/ \E present \in BOOLEAN : VTSetClient(present)
    \/ VTConnectionDestroyed
    \/ \E selected \in BOOLEAN : VTSetSelected(selected)
    \/ \E configuration \in Configurations : VTUpdateConfiguration(configuration)

\* C34: setSelected(s) with a live connection sends one
\* VideoTrackSetSelected(id, s) message when s differs from the selected state
\* and none when it is equal, and the selected state is s afterwards; without a
\* connection it sends nothing and leaves the selected state as it was.
SetSelectedSendsOnChange ==
    [][vtResult'.op = "setSelected" =>
          IF m_gpuProcessConnection
          THEN /\ m_selected' = vtResult'.selected
               /\ vtSent' = IF vtResult'.selected # m_selected
                            THEN vtSent \o <<[name |-> "VideoTrackSetSelected", id |-> m_idendifier, selected |-> vtResult'.selected]>>
                            ELSE vtSent
          ELSE /\ m_selected' = m_selected
               /\ vtSent' = vtSent
      ]_allVars

SetSelectedIgnoredAfterTwoMessages ==
    /\ vtResult.op = "setSelected"
    /\ ~m_gpuProcessConnection
    /\ Len(vtSent) = 2
    /\ m_selected # vtResult.selected

\* C35: updateConfiguration stores every field of the configuration, tells
\* the client of a new id, label or language only when the value differs from
\* the stored one and the stored one was not empty, never in the constructor,
\* and sends no message, also when the selected state changes.
UpdateConfigurationStoresAndNotifies ==
    [][vtResult'.op \in {"construct", "updateConfiguration"} =>
          LET c == vtResult'.configuration
              told(callback) == \E i \in DOMAIN vtResult'.notified : vtResult'.notified[i].callback = callback
          IN  /\ m_id' = c.trackId
              /\ m_label' = c.label
              /\ m_language' = c.language
              /\ vtFields' = c.fields
              /\ m_selected' = c.selected
              /\ told("idChanged") => (c.trackId # m_id /\ m_id # "")
              /\ told("labelChanged") => (c.label # m_label /\ m_label # "")
              /\ told("languageChanged") => (c.language # m_language /\ m_language # "")
              /\ vtResult'.op = "construct" => vtResult'.notified = <<>>
              /\ vtSent' = vtSent
      ]_allVars

ConfigurationChangedEverything ==
    /\ vtResult.op = "updateConfiguration"
    /\ Len(vtResult.notified) = 4
    /\ m_gpuProcessConnection
    /\ vtSent = <<>>

\* ------------------------------------------ WebCore: AT-SPI Selection
\* AccessibilityObjectSelectionAtspi.cpp.  The D-Bus method_call handler
\* reads an int index and calls a member function that takes an unsigned
\* index; the member functions run on the main thread against the children
\* of the core object.  A child's setSelected may or may not take effect,
\* which is why the code reads isSelected() back.

NumChildren == 3
\* unsigned arithmetic is modular; the model keeps 16 bits of it.
UnsignedModulus == 65536

\* m_coreObject->children(), in order.
ChildrenVector == [k \in 1..NumChildren |-> k]
\* The children whose canSetSelectedAttribute() is true.
SelectableChildren == 1..(NumChildren - 1)
\* The int values a caller sends: negative, inside and beyond the children.
SelectionIndexes == (0 - 1)..(NumChildren + 1)

\* m_root.atspi().nullReference().
NullReference == 0

NoASResult == [op |-> "none", index |-> 0, reference |-> NullReference, reply |-> FALSE]

ASInit ==
    /\ m_coreObject = TRUE
    /\ asSelected = [c \in 1..NumChildren |-> FALSE]
    /\ asResult = NoASResult

\* The conversion of the int argument to the unsigned parameter.
ToUnsigned(childIndex) == childIndex % UnsignedModulus

\* m_coreObject->selectedChildren(selectedItems).
selectedChildren(selected) == SelectSeq(ChildrenVector, LAMBDA c : selected[c])

\* AccessibilityObject::setSelected on one child: the states it can leave.
ChildSetSelected(selected, child, value) == {selected, [selected EXCEPT ![child] = value]}

\* AccessibilityObject::setSelectedChildren: the states it can leave.
SetSelectedChildren(selected, items) == {selected, [c \in 1..NumChildren |-> c \in items /\ c \in SelectableChildren]}

\* AccessibilityObjectAtspi::selectedChild: the wrapper or null.
selectedChild(core, selected, childIndex) ==
    IF ~core THEN NullReference
    ELSE LET selectedItems == selectedChildren(selected)
         IN  IF childIndex >= Len(selectedItems) THEN NullReference
             ELSE selectedItems[childIndex + 1]

\* AccessibilityObjectAtspi::setChildSelected: the states and values it can
\* return.
setChildSelected(core, selected, childIndex, value) ==
    IF ~core THEN {[selected |-> selected, reply |-> FALSE]}
    ELSE IF childIndex >= Len(ChildrenVector) THEN {[selected |-> selected, reply |-> FALSE]}
    ELSE IF ChildrenVector[childIndex + 1] \notin SelectableChildren THEN {[selected |-> selected, reply |-> FALSE]}
    ELSE {[selected |-> after, reply |-> IF value THEN after[ChildrenVector[childIndex + 1]] ELSE ~after[ChildrenVector[childIndex + 1]]] : after \in ChildSetSelected(selected, ChildrenVector[childIndex + 1], value)}

deselectSelectedChildOfChildren(core, selected, childIndex) == setChildSelected(core, selected, childIndex, FALSE)

\* AccessibilityObjectAtspi::deselectSelectedChild.
deselectSelectedChild(core, selected, childIndex) ==
    IF ~core THEN {[selected |-> selected, reply |-> FALSE]}
    ELSE LET selectedItems == selectedChildren(selected)
         IN  IF childIndex >= Len(selectedItems) THEN {[selected |-> selected, reply |-> FALSE]}
             ELSE IF selectedItems[childIndex + 1] \notin SelectableChildren THEN {[selected |-> selected, reply |-> FALSE]}
             ELSE {[selected |-> after, reply |-> ~after[selectedItems[childIndex + 1]]] : after \in ChildSetSelected(selected, selectedItems[childIndex + 1], FALSE)}

\* AccessibilityObjectAtspi::isChildSelected.
isChildSelected(core, selected, childIndex) ==
    IF ~core THEN FALSE
    ELSE IF childIndex >= Len(ChildrenVector) THEN FALSE
    ELSE selected[ChildrenVector[childIndex + 1]]

\* AccessibilityObjectAtspi::selectAll.
selectAll(core, selected, isMultiSelectable, canSetSelectedChildren) ==
    IF ~core THEN {[selected |-> selected, reply |-> FALSE]}
    ELSE IF ~isMultiSelectable \/ ~canSetSelectedChildren THEN {[selected |-> selected, reply |-> FALSE]}
    ELSE IF Cardinality(SelectableChildren) = 0 THEN {[selected |-> selected, reply |-> FALSE]}
    ELSE {[selected |-> after, reply |-> Cardinality(SelectableChildren) = Len(selectedChildren(after))] : after \in SetSelectedChildren(selected, 1..NumChildren)}

\* AccessibilityObjectAtspi::clearSelection.
clearSelection(core, selected, canSetSelectedChildren) ==
    IF ~core THEN {[selected |-> selected, reply |-> FALSE]}
    ELSE IF ~canSetSelectedChildren THEN {[selected |-> selected, reply |-> FALSE]}
    ELSE {[selected |-> after, reply |-> selectedChildren(after) = <<>>] : after \in SetSelectedChildren(selected, {})}

\* method_call with "GetSelectedChild".
GetSelectedChild(childIndex) ==
    /\ asResult' = [op |-> "GetSelectedChild", index |-> childIndex,
                    reference |-> IF childIndex >= 0
                                  THEN selectedChild(m_coreObject, asSelected, ToUnsigned(childIndex))
                                  ELSE NullReference,
                    reply |-> FALSE]
    /\ UNCHANGED <<m_coreObject, asSelected>>
    /\ UNCHANGED outsideSelection

\* A method whose reply is a boolean: `returned` are the states and values
\* the member function can return for a non-negative index.
BooleanMethodCall(methodName, childIndex, returned) ==
    /\ IF childIndex >= 0
       THEN \E r \in returned :
               /\ asSelected' = r.selected
               /\ asResult' = [op |-> methodName, index |-> childIndex, reference |-> NullReference, reply |-> r.reply]
       ELSE /\ asSelected' = asSelected
            /\ asResult' = [op |-> methodName, index |-> childIndex, reference |-> NullReference, reply |-> FALSE]
    /\ UNCHANGED m_coreObject
    /\ UNCHANGED outsideSelection

\* method_call with "SelectChild".
SelectChild(childIndex) == BooleanMethodCall("SelectChild", childIndex, setChildSelected(m_coreObject, asSelected, ToUnsigned(childIndex), TRUE))

\* method_call with "DeselectSelectedChild".
DeselectSelectedChild(childIndex) == BooleanMethodCall("DeselectSelectedChild", childIndex, deselectSelectedChild(m_coreObject, asSelected, ToUnsigned(childIndex)))

\* method_call with "IsChildSelected".
IsChildSelected(childIndex) == BooleanMethodCall("IsChildSelected", childIndex, {[selected |-> asSelected, reply |-> isChildSelected(m_coreObject, asSelected, ToUnsigned(childIndex))]})

\* method_call with "SelectAll".
SelectAll(isMultiSelectable, canSetSelectedChildren) == BooleanMethodCall("SelectAll", 0, selectAll(m_coreObject, asSelected, isMultiSelectable, canSetSelectedChildren))

\* method_call with "ClearSelection".
ClearSelection(canSetSelectedChildren) == BooleanMethodCall("ClearSelection", 0, clearSelection(m_coreObject, asSelected, canSetSelectedChildren))

\* method_call with "DeselectChild".
DeselectChild(childIndex) == BooleanMethodCall("DeselectChild", childIndex, setChildSelected(m_coreObject, asSelected, ToUnsigned(childIndex), FALSE))

\* The core object goes away: the wrapper is detached.
ASDetach ==
    /\ m_coreObject
    /\ m_coreObject' = FALSE
    /\ asResult' = [NoASResult EXCEPT !.op = "detach"]
    /\ UNCHANGED asSelected
    /\ UNCHANGED outsideSelection

ASNext ==
    \/ \E childIndex \in SelectionIndexes : GetSelectedChild(childIndex)
    \/ \E childIndex \in SelectionIndexes : SelectChild(childIndex)
    \/ \E childIndex \in SelectionIndexes : DeselectSelectedChild(childIndex)
    \/ \E childIndex \in SelectionIndexes : IsChildSelected(childIndex)
    \/ \E isMultiSelectable \in BOOLEAN, canSetSelectedChildren \in BOOLEAN : SelectAll(isMultiSelectable, canSetSelectedChildren)
    \/ \E canSetSelectedChildren \in BOOLEAN : ClearSelection(canSetSelectedChildren)
    \/ \E childIndex \in SelectionIndexes : DeselectChild(childIndex)
    \/ ASDetach

\* C37: the selection methods that take a child index answer a negative
\* index, and an index at or beyond the number of children (for
\* GetSelectedChild and DeselectSelectedChild: of selected children), with the
\* null reference or FALSE and change no selection.
OutOfRangeIndexChangesNothing ==
    [][asResult'.op \in {"GetSelectedChild", "SelectChild", "DeselectSelectedChild", "IsChildSelected", "DeselectChild"} =>
          LET count == IF asResult'.op \in {"GetSelectedChild", "DeselectSelectedChild"}
                       THEN Cardinality({c \in 1..NumChildren : asSelected[c]})
                       ELSE NumChildren
          IN  (asResult'.index < 0 \/ asResult'.index >= count) =>
                  /\ asSelected' = asSelected
                  /\ asResult'.reference = NullReference
                  /\ asResult'.reply = FALSE
      ]_allVars

\* DeselectSelectedChild was called with the index of a child that exists and
\* is selected, but beyond the one selected child.
DeselectedBeyondTheSelection ==
    /\ asResult.op = "DeselectSelectedChild"
    /\ asResult.index = 1
    /\ m_coreObject
    /\ asSelected[2]
    /\ Cardinality({c \in 1..NumChildren : asSelected[c]}) = 1
    /\ ~asResult.reply

\* ---------------------------------------------------------- specifications
\* Each specification runs one part of the model; the variables of the
\* other parts keep the values they have after construction.

\* Every part in its state after construction.
AfterConstruction == Init /\ OSRInit /\ EHRest /\ CGRest /\ FVInit /\ COInit /\ BVInit /\ VTInit /\ ASInit

\* The replacement and OSR-entry slots, their writers and readers.
Spec == AfterConstruction /\ [][Next]_allVars

\* The same with failing compilations and aborting setter calls.
SpecErr == AfterConstruction /\ [][NextErr]_allVars

\* The OSR-compilation flag of the BBQ callees.
SpecOSRFlag == AfterConstruction /\ [][OSRNext]_allVars

\* The constructor of OptimizingJITCallee entered with any arguments, and
\* the handler lookups on the callee it produced.
EnterConstructor == Init /\ OSRInit /\ EHInit /\ CGRest /\ FVInit /\ COInit /\ BVInit /\ VTInit /\ ASInit
SpecHandlers == EnterConstructor /\ [][EHNext]_allVars

\* The constructor of JSWebAssemblyCalleeGroup for any module.
EnterGroupConstructor == Init /\ OSRInit /\ EHRest /\ CGInit /\ FVInit /\ COInit /\ BVInit /\ VTInit /\ ASInit
SpecGroup == EnterGroupConstructor /\ [][CGNext]_allVars

\* A remote video track under the calls of its owner.
SpecVideoTrack == AfterConstruction /\ [][VTNext]_allVars

\* The Selection interface of one accessibility object under D-Bus calls.
SpecSelection == AfterConstruction /\ [][ASNext]_allVars

\* FixedVector objects under the operations of FixedVector.h.
SpecFixedVector == AfterConstruction /\ [][FVNext]_allVars

\* Callee objects of the five classes from create() to ~Callee().
SpecCalleeObjects == AfterConstruction /\ [][CONext]_allVars

\* The GPU buffer object, the calls of the front end and the command queue.
SpecBufferVk == AfterConstruction /\ [][BVNext]_allVars

\* The data the buffer object holds under the calls that write it.
SpecBufferVkData == AfterConstruction /\ [][BVDataNext]_allVars

=========================================================================
